---- MODULE Spec2Model ----
(***************************************************************************)
(* Three-Body Engine: the phase state machine (workflow.Engine), the       *)
(* budget governor (workflow.BudgetGovernor) and the part of the SQLite    *)
(* store they write (tasks, workflow_events, phase_snapshots).             *)
(*                                                                         *)
(* The store is opened with SetMaxOpenConns(1): a transaction holds the    *)
(* only connection from BeginTx to Commit/Rollback, so every transaction   *)
(* is one atomic step, and so is every read made outside a transaction.    *)
(* Advance and RecordUsage read the task row first (GetByID) and open      *)
(* their transaction afterwards, so other callers' steps may fall between  *)
(* their two steps.                                                        *)
(*                                                                         *)
(* Amounts are integers (one unit of currency each) standing for the       *)
(* float64 amounts of the code; the thresholds 0.8 and 1.0 are kept as     *)
(* fractions.  Timestamps, the actor string and the snapshot checksum are  *)
(* written but never read by the modelled code and are left out of the     *)
(* rows.  Failures of the storage engine itself (I/O errors, a cancelled   *)
(* context) are not modelled.                                              *)
(***************************************************************************)
EXTENDS Integers, Sequences, FiniteSets, TLC

\* ---------------------------------------------------------------- bounds

\* No Advance goes on to its transaction from a state whose last_event_seq
\* has reached MaxSeq: a task has at most MaxSeq events.
MaxSeq == 9

\* No RecordUsage goes on to its transaction from a state that MaxRecords
\* recordings have already updated.
MaxRecords == 1

\* Callers running concurrently: the HTTP handlers, which call StartFlow and
\* Advance, and the bridge forwarders, which call RecordUsage.
Handlers == {"h1", "h2"}
Forwarders == {"b1"}
Procs == Handlers \cup Forwarders

\* Task IDs callers may name.  Every statement of the modelled code that
\* reads or writes a row names its task (WHERE task_id = ?), and the tables
\* are kept per task here, so one ID shows all a task can go through.
TaskIDs == {"t1"}

\* Budget caps given to StartFlow and amounts given to RecordUsage.
Caps == {0, 5}
Amounts == {-1, 5}

\* ------------------------------------------------------ domain constants

Phases == {"A", "B", "C", "D", "E", "F", "G"}

StatusRunning == "running"
StatusBlocked == "blocked"
StatusFailed == "failed"
StatusDone == "completed"

\* trigger.Action values: the three the engine knows and one it does not.
Actions == {"advance", "rollback", "rework", "skip"}

\* WarnRatio = 0.8 and HaltRatio = 1.0 as fractions.
WarnRatioNum == 4
WarnRatioDen == 5
HaltRatioNum == 1
HaltRatioDen == 1

\* Error values.  The Err* names are the EngineErrors of domain/errors.go;
\* the Raw* values are fmt.Errorf wrappings of the driver's error, which
\* are no EngineError and carry no code.
OK == "ok"
ErrInvalidTransition == "invalid_transition"
ErrPhaseGateFailed == "phase_gate_failed"
ErrFlowNotFound == "flow_not_found"
ErrFlowAlreadyDone == "flow_already_done"
ErrOptimisticLock == "optimistic_lock"
ErrGateNotRegistered == "gate_not_registered"
ErrDuplicateTask == "duplicate_task"
RawCreateTask == "create task: create task: UNIQUE constraint failed"
RawAppendStartEvent == "append start event: append event: UNIQUE constraint failed"
RawAppendTransitionEvent == "append transition event: append event: UNIQUE constraint failed"

\* ------------------------------------------------------------------ state

VARIABLES
    tasks,      \* table tasks: task_id -> row, defined on the IDs that exist
    events,     \* table workflow_events: per task, the rows in insert order
    snapshots,  \* table phase_snapshots: per task, the rows in insert order
    call,       \* per caller: the call it is in, or the last one it made
    workers,    \* table workers: worker_id -> row, defined on the IDs that exist
    intents,    \* table intent_logs: intent_id -> row, on the IDs that exist
    now,        \* the wall clock, in ticks of 1/TicksPerSec second
    tcall,      \* per client of package team: the call it is in, or its last
    leaseLog,   \* history: per intent, when its last AcquireLock returned
    fwd,        \* per bridge forwarder: the session event it is handling
    out,        \* per bridge forwarder: the events sent on its output channel
    sse,        \* per event-stream consumer: lastSeq and the events written
    stdout,     \* the session's stdout pipe: the lines not yet read, and open
    reader,     \* the session's readStdout task: where it is, the event held
    evch,       \* the session's event channel: its buffer, and closed
    registry,   \* the SessionManager's map: the IDs of its sessions
    scall,      \* per caller of StopSession: the call it is in, or its last
    effects,    \* the kills of the session's process, the stop audit records
    ctx,        \* the contexts cancelled: the session's, the forwarder's
    hist,       \* history: lines written, events received, events delivered
    mon,        \* the Supervisor's stop signal, its context, its loops
    guard,      \* the Guard: its config, its rateCounts, the time steps taken
    gcall,      \* per caller of the Guard: the call it is in, or its last
    gate        \* a CompositeGate: its children's decisions, and its own

\* The variables of the engine and its callers, of package team, of the
\* bridge and of the event stream.
engineVars == <<tasks, events, snapshots, call>>
teamVars == <<workers, intents, now, tcall>>
bridgeVars == <<fwd, out>>
streamVars == <<sse>>
sessionVars == <<stdout, reader, evch, registry, scall, effects, ctx, hist>>
monitorVars == <<mon>>
guardVars == <<guard, gcall>>
gateVars == <<gate>>
restVars == <<sessionVars, monitorVars, guardVars, gateVars>>

vars ==
    <<tasks, events, snapshots, call, workers, intents, now, tcall, leaseLog,
      fwd, out, sse, stdout, reader, evch, registry, scall, effects, ctx, hist,
      mon, guard, gcall, gate>>

\* What the steps of the engine's callers, and of package team's clients,
\* leave alone.
notEngine == <<teamVars, leaseLog, bridgeVars, streamVars, restVars>>
notTeam == <<engineVars, leaseLog, bridgeVars, streamVars, restVars>>
notBridge == <<teamVars, leaseLog, streamVars, restVars>>
notStream == <<teamVars, leaseLog, bridgeVars, restVars>>
notMonitor ==
    <<engineVars, leaseLog, bridgeVars, streamVars, sessionVars, guardVars,
      gateVars>>

\* The zero FlowState: what a caller holds when it has loaded nothing.
NoState ==
    [currentPhase |-> "", status |-> "", stateVersion |-> 0, round |-> 0,
     budgetUsed |-> 0, budgetCap |-> 0, lastEventSeq |-> 0]

\* A caller that has made no call yet.
NoCall ==
    [op |-> "none", task |-> "", action |-> "", amount |-> 0,
     state |-> NoState, err |-> "none", costAction |-> ""]

Pending == "pending"

Exists(t) == t \in DOMAIN tasks


\* -------------------------------------------------- the phase graph (fsm.go)

\* validTransitions: the legal (from, to) pairs.
validTransitions ==
    {<<"A", "B">>, <<"B", "C">>, <<"C", "D">>, <<"D", "E">>, <<"D", "C">>,
     <<"E", "F">>, <<"F", "G">>, <<"F", "E">>}

IsValidTransition(from, to) == <<from, to>> \in validTransitions

\* The "" a Go function returns for the phase next to a non-nil error.
NoPhase == ""

\* nextPhaseForward: the next phase on the forward path, NoPhase (an
\* invalid_transition error) from G or from no phase at all.
nextPhaseForward(current) ==
    CASE current = "A" -> "B"
      [] current = "B" -> "C"
      [] current = "C" -> "D"
      [] current = "D" -> "E"
      [] current = "E" -> "F"
      [] current = "F" -> "G"
      [] OTHER -> NoPhase

\* resolveNextPhase: the target of an action, NoPhase when it returns the
\* invalid_transition error.
resolveNextPhase(current, action) ==
    CASE action = "advance" -> nextPhaseForward(current)
      [] action = "rollback" -> IF current = "D" THEN "C" ELSE NoPhase
      [] action = "rework" -> IF current = "F" THEN "E" ELSE NoPhase
      [] OTHER -> NoPhase

\* ------------------------------------------ the budget governor (cost.go)

CostContinue == "continue"
CostWarn == "warn"
CostHalt == "halt"

\* evaluate(used, cap): ratio = used / cap compared with HaltRatio, then
\* WarnRatio; a cap <= 0 disables the budget.
evaluate(used, cap) ==
    IF cap <= 0 THEN CostContinue
    ELSE IF used * HaltRatioDen >= HaltRatioNum * cap THEN CostHalt
    ELSE IF used * WarnRatioDen >= WarnRatioNum * cap THEN CostWarn
    ELSE CostContinue

CheckBudget(state) == evaluate(state.budgetUsed, state.budgetCap)

\* --------------------------------------------------- the gates (fsm.go)

\* NewPhaseGateRegistry registers the default gate for every phase.
GateRegistered(phase) == phase \in Phases

\* DefaultGateAllow without the budget test.
DefaultGateAllowAnyBudget(state) == state.status = StatusRunning

\* DefaultGate.Evaluate: allow iff the flow is running and the budget is
\* not at halt.
DefaultGateAllow(state) ==
    /\ state.status = StatusRunning
    /\ CheckBudget(state) # CostHalt

\* Engine.Advance from the status test to the transition test: the error it
\* returns before opening its transaction, OK when it goes on to open it.
AdvanceCheck(state, action) ==
    IF state.status = StatusDone THEN ErrFlowAlreadyDone
    ELSE IF ~GateRegistered(state.currentPhase) THEN ErrGateNotRegistered
    ELSE IF ~DefaultGateAllow(state) THEN ErrPhaseGateFailed
    ELSE IF resolveNextPhase(state.currentPhase, action) = NoPhase
        THEN ErrInvalidTransition
    ELSE IF ~IsValidTransition(state.currentPhase,
                               resolveNextPhase(state.currentPhase, action))
        THEN ErrInvalidTransition
    ELSE OK

\* The event Advance appends: seq_no = LastEventSeq + 1, phase = the target,
\* the payload's from, to and action.
TransitionEvent(state, nextPhase, action) ==
    [seqNo |-> state.lastEventSeq + 1, phase |-> nextPhase,
     eventType |-> "phase_transition",
     from |-> state.currentPhase, to |-> nextPhase, action |-> action]

\* The flow_started event of StartFlow.
StartEvent ==
    [seqNo |-> 1, phase |-> "A", eventType |-> "flow_started",
     from |-> "", to |-> "", action |-> ""]

\* The snapshot Advance saves: the target phase at the loaded round.
TransitionSnapshot(state, nextPhase, action) ==
    [phase |-> nextPhase, round |-> state.round,
     from |-> state.currentPhase, to |-> nextPhase, trigger |-> action]

\* UpdatedState without "updatedState.LastEventSeq = newSeq".
UpdatedStateKeepsSeq(state, nextPhase) ==
    [state EXCEPT
        !.currentPhase = nextPhase,
        !.status = IF nextPhase = "G" THEN StatusDone ELSE state.status,
        !.round = IF \/ (state.currentPhase = "D" /\ nextPhase = "C")
                     \/ (state.currentPhase = "F" /\ nextPhase = "E")
                  THEN state.round + 1 ELSE state.round]

\* UpdatedState counting a round on every transition out of D or F, the
\* test of the target phase dropped.
UpdatedStateRoundFromDF(state, nextPhase) ==
    [state EXCEPT
        !.currentPhase = nextPhase,
        !.lastEventSeq = state.lastEventSeq + 1,
        !.status = IF nextPhase = "G" THEN StatusDone ELSE state.status,
        !.round = IF state.currentPhase = "D" \/ state.currentPhase = "F"
                  THEN state.round + 1 ELSE state.round]

\* UpdatedState marking the flow done by the phase it leaves (F) instead of
\* the phase it enters (G).
UpdatedStateDoneFromF(state, nextPhase) ==
    [state EXCEPT
        !.currentPhase = nextPhase,
        !.lastEventSeq = state.lastEventSeq + 1,
        !.status = IF state.currentPhase = "F" THEN StatusDone ELSE state.status,
        !.round = IF \/ (state.currentPhase = "D" /\ nextPhase = "C")
                     \/ (state.currentPhase = "F" /\ nextPhase = "E")
                  THEN state.round + 1 ELSE state.round]

\* updatedState of Advance: the loaded state moved to nextPhase, completed
\* at G, with the round counted on the two back edges.
UpdatedState(state, nextPhase) ==
    [state EXCEPT
        !.currentPhase = nextPhase,
        !.lastEventSeq = state.lastEventSeq + 1,
        !.status = IF nextPhase = "G" THEN StatusDone ELSE state.status,
        !.round = IF \/ (state.currentPhase = "D" /\ nextPhase = "C")
                     \/ (state.currentPhase = "F" /\ nextPhase = "E")
                  THEN state.round + 1 ELSE state.round]

\* The state StartFlow inserts.
InitialState(cap) ==
    [currentPhase |-> "A", status |-> StatusRunning, stateVersion |-> 1,
     round |-> 0, budgetUsed |-> 0, budgetCap |-> cap, lastEventSeq |-> 1]

\* ------------------------------------------------------------- the store

\* UNIQUE(task_id, seq_no) of workflow_events: whether an insert of seq
\* for task t violates it.
SeqNoTaken(t, seq) == \E i \in DOMAIN events[t] : events[t][i].seqNo = seq

\* UpdateFindsRow without "AND state_version = ?".
UpdateFindsRowAnyVersion(t, state) == Exists(t)

\* The WHERE clause of UpdateStateTx: whether the update finds a row.
UpdateFindsRow(t, state) ==
    /\ Exists(t)
    /\ tasks[t].stateVersion = state.stateVersion

\* UpdatedRow writing the caller's state_version back instead of
\* state_version + 1.
UpdatedRowSameVersion(row, state) == state

\* The SET clause of UpdateStateTx: every column from the caller's state,
\* except state_version = state_version + 1 of the row.
UpdatedRow(row, state) ==
    [state EXCEPT !.stateVersion = row.stateVersion + 1]

\* EventsAfterRollback with the insert made outside the transaction, so
\* that the rollback does not reach it.
EventsAfterNoRollback(t, inserted) ==
    [events EXCEPT ![t] = Append(@, inserted)]

\* What a rolled-back transaction (defer tx.Rollback()) leaves of the events
\* it had inserted for task t: nothing.
EventsAfterRollback(t, inserted) == events

\* TaskRepo.GetByID: the row, or NoState with flow_not_found.
GetByID(t) == IF Exists(t) THEN tasks[t] ELSE NoState


\* ------------------------------------------------------------- the calls

Idle(p) == call[p].err # Pending

\* The updates a state has been through that were no transitions: the
\* recordings.  state_version counts the insert and every update,
\* last_event_seq the insert and every transition.
Recordings(state) == state.stateVersion - state.lastEventSeq

\* The errors Advance returns from inside its transaction.
TxErrors == {ErrOptimisticLock, RawAppendTransitionEvent}

\* What is remembered of a call once it has returned: its operation, its
\* task and its result, and of an Advance that reached its transaction the
\* state_version it had loaded.
Result(c) ==
    [NoCall EXCEPT
        !.op = c.op, !.task = c.task, !.err = c.err,
        !.state = [NoState EXCEPT !.stateVersion =
                      IF c.op = "advance" /\ c.err \in TxErrors \cup {OK}
                      THEN c.state.stateVersion ELSE 0]]

\* Caller p goes on with, or returns from, call c.
Returned(p, c) ==
    call' = [call EXCEPT ![p] = IF c.err = Pending THEN c ELSE Result(c)]

\* Engine.StartFlow(taskID, budgetCapUSD): one transaction that inserts the
\* task and its flow_started event; an insert that fails returns its
\* wrapped error and the transaction is rolled back.
StartFlow(p, t, cap) ==
    /\ Idle(p)
    /\ LET c == [NoCall EXCEPT !.op = "startFlow", !.task = t, !.amount = cap]
       IN  IF Exists(t)
           THEN /\ Returned(p, [c EXCEPT !.err = RawCreateTask])
                /\ UNCHANGED <<tasks, events, snapshots>>
           ELSE IF SeqNoTaken(t, StartEvent.seqNo)
           THEN /\ Returned(p, [c EXCEPT !.err = RawAppendStartEvent])
                /\ UNCHANGED <<tasks, events, snapshots>>
           ELSE /\ tasks' = tasks @@ (t :> InitialState(cap))
                /\ events' = [events EXCEPT ![t] = Append(@, StartEvent)]
                /\ Returned(p, [c EXCEPT !.err = OK])
                /\ UNCHANGED snapshots

\* Engine.Advance up to BeginTx: the load, the status test, the gate and the
\* resolution of the target.  It returns an error, or goes on holding the
\* state it loaded.
AdvanceLoad(p, t, action) ==
    /\ Idle(p)
    /\ LET state == GetByID(t)
           c == [NoCall EXCEPT !.op = "advance", !.task = t,
                               !.action = action, !.state = state]
       IN  IF ~Exists(t)
           THEN Returned(p, [c EXCEPT !.err = ErrFlowNotFound])
           ELSE IF AdvanceCheck(state, action) # OK
           THEN Returned(p, [c EXCEPT !.err = AdvanceCheck(state, action)])
           ELSE /\ state.lastEventSeq < MaxSeq
                /\ Returned(p, [c EXCEPT !.err = Pending])
    /\ UNCHANGED <<tasks, events, snapshots>>

\* Engine.Advance from BeginTx to Commit: append the event, save the
\* snapshot, update the task under the optimistic lock.  The first statement
\* that fails ends the call and the deferred Rollback undoes the others.
AdvanceTx(p) ==
    /\ call[p].op = "advance"
    /\ call[p].err = Pending
    /\ LET t == call[p].task
           state == call[p].state
           nextPhase == resolveNextPhase(state.currentPhase, call[p].action)
           event == TransitionEvent(state, nextPhase, call[p].action)
           snap == TransitionSnapshot(state, nextPhase, call[p].action)
           updatedState == UpdatedState(state, nextPhase)
       IN  IF SeqNoTaken(t, event.seqNo)
           THEN /\ Returned(p, [call[p] EXCEPT !.err = RawAppendTransitionEvent])
                /\ UNCHANGED <<tasks, events, snapshots>>
           ELSE IF ~UpdateFindsRow(t, updatedState)
           THEN /\ Returned(p, [call[p] EXCEPT !.err = ErrOptimisticLock])
                /\ events' = EventsAfterRollback(t, event)
                /\ UNCHANGED <<tasks, snapshots>>
           ELSE /\ events' = [events EXCEPT ![t] = Append(@, event)]
                /\ snapshots' = [snapshots EXCEPT ![t] = Append(@, snap)]
                /\ tasks' = [tasks EXCEPT ![t] = UpdatedRow(@, updatedState)]
                /\ Returned(p, [call[p] EXCEPT !.err = OK])

\* BudgetGovernor.RecordUsage up to BeginTx: the load and the addition.
RecordLoad(p, t, amount) ==
    /\ Idle(p)
    /\ LET state == GetByID(t)
           c == [NoCall EXCEPT !.op = "recordUsage", !.task = t,
                               !.amount = amount]
       IN  IF ~Exists(t)
           THEN Returned(p, [c EXCEPT !.err = ErrFlowNotFound,
                                      !.costAction = CostContinue])
           ELSE /\ Recordings(state) < MaxRecords
                /\ Returned(p, [c EXCEPT
                       !.err = Pending,
                       !.state = [state EXCEPT !.budgetUsed = @ + amount]])
    /\ UNCHANGED <<tasks, events, snapshots>>

\* BudgetGovernor.RecordUsage from BeginTx on: the update under the
\* optimistic lock, then the evaluation of the new budget.
RecordTx(p) ==
    /\ call[p].op = "recordUsage"
    /\ call[p].err = Pending
    /\ LET t == call[p].task
           state == call[p].state
       IN  IF ~UpdateFindsRow(t, state)
           THEN /\ Returned(p, [call[p] EXCEPT !.err = ErrOptimisticLock,
                                               !.costAction = CostContinue])
                /\ UNCHANGED tasks
           ELSE /\ tasks' = [tasks EXCEPT ![t] = UpdatedRow(@, state)]
                /\ Returned(p, [call[p] EXCEPT
                       !.err = OK,
                       !.costAction = evaluate(state.budgetUsed, state.budgetCap)])
    /\ UNCHANGED <<events, snapshots>>

\* ================================================== package team: workers

\* The clock runs in ticks, TicksPerSec to the second, up to MaxTime ticks;
\* time.Now().Unix() is the whole seconds gone by.
TicksPerSec == 2
MaxTime == 6

Unix(ticks) == ticks \div TicksPerSec

\* No Spawn inserts a worker once MaxSpawns rows exist.
MaxSpawns == 2

\* WorkerManager.MaxWorkers, as given to NewWorkerManager.
MaxWorkers == 1

\* The clients of package team that run concurrently: the callers of the
\* worker manager and the monitoring loops of the supervisor.
Managers == {"c1"}
Monitors == {"c2"}
Clients == Managers \cup Monitors

Files == {"main.go", "util.go"}

WorkerCreated == "created"
WorkerRunning == "running"
WorkerSoftTimeout == "soft_timeout"
WorkerHardTimeout == "hard_timeout"
WorkerReplaced == "replaced"
WorkerDone == "done"

WorkerStates ==
    {WorkerCreated, WorkerRunning, WorkerSoftTimeout, WorkerHardTimeout,
     WorkerReplaced, WorkerDone}

ErrWorkerNotFound == "worker_not_found"
ErrWorkerLimitReached == "worker_limit_reached"
ErrWorkerAlreadyDone == "worker_already_done"

\* isTerminal of WorkerManager.
isTerminal(s) == s \in {WorkerDone, WorkerReplaced, WorkerHardTimeout}

\* The zero WorkerSpec.
NoSpec ==
    [taskID |-> "", role |-> "", fileOwnership |-> <<>>,
     softTimeoutSec |-> 0, hardTimeoutSec |-> 0]

\* The zero Intent.
NoIntent ==
    [intentID |-> "", taskID |-> "", workerID |-> 0, targetFile |-> "",
     status |-> "", preHash |-> "", postHash |-> "", leaseUntil |-> 0]

\* A client of package team that has made no call yet.  pc is the statement
\* the call is at ("" once it has returned), worker and state the arguments,
\* spec the WorkerSpec of a Spawn, queue the workers CheckTimeouts has still
\* to handle, nowUnix its argument, hard whether it is handling a hard
\* timeout, spawned the ID of the worker the call has created, actions the
\* TimeoutActions CheckTimeouts has gathered; intent the Intent of an
\* AcquireLock or the one a ReleaseLock or an Execute has loaded, lease,
\* hash and postHash their other arguments.
NoTeamCall ==
    [op |-> "none", pc |-> "", worker |-> 0, state |-> "", spec |-> NoSpec,
     queue |-> <<>>, nowUnix |-> 0, hard |-> FALSE, spawned |-> 0,
     actions |-> <<>>, intent |-> NoIntent, lease |-> 0, hash |-> "",
     postHash |-> "", err |-> "none"]

TeamIdle(c) == tcall[c].pc = ""

WorkerExists(id) == id \in DOMAIN workers

\* WorkerRepo.CountActive: the task's workers in state created or running.
CountActive(t) ==
    Cardinality({id \in DOMAIN workers :
                    /\ workers[id].taskID = t
                    /\ workers[id].state \in {WorkerCreated, WorkerRunning}})

\* WorkerRepo.ListActive: the IDs of the task's workers in state created or
\* running, in the order of their creation.  IDs are given out in that order.
RECURSIVE Ascending(_)
Ascending(S) ==
    IF S = {} THEN <<>>
    ELSE LET m == CHOOSE x \in S : \A y \in S : x <= y
         IN  <<m>> \o Ascending(S \ {m})

ActiveIDs(t) ==
    Ascending({id \in DOMAIN workers :
                  /\ workers[id].taskID = t
                  /\ workers[id].state \in {WorkerCreated, WorkerRunning}})

ListActive(t) ==
    [i \in DOMAIN ActiveIDs(t) |->
        [id |-> ActiveIDs(t)[i], row |-> workers[ActiveIDs(t)[i]]]]

\* The row Spawn creates from a spec.
NewWorker(spec) ==
    [taskID |-> spec.taskID, role |-> spec.role, state |-> WorkerCreated,
     fileOwnership |-> spec.fileOwnership,
     softTimeoutSec |-> spec.softTimeoutSec,
     hardTimeoutSec |-> spec.hardTimeoutSec,
     lastHeartbeat |-> Unix(now)]

\* The worker ID Spawn makes up: "w-<time>-<workerSeq>", never used before.
NextWorkerID == Cardinality(DOMAIN workers) + 1

\* What is remembered of a call of package team once it has returned:
\* its operation and its result, and of a call about an intent the ID, the
\* task and the file of the intent and the hash given.
TeamResult(rec, err) ==
    [NoTeamCall EXCEPT
        !.op = rec.op, !.err = err, !.hash = rec.hash,
        !.intent = [NoIntent EXCEPT !.intentID = rec.intent.intentID,
                                    !.taskID = rec.intent.taskID,
                                    !.targetFile = rec.intent.targetFile]]

SetCall(c, rec) == tcall' = [tcall EXCEPT ![c] = rec]

\* The workers of a ListActive result that CheckTimeouts acts on: those
\* whose heartbeat age is over a positive hard timeout, or else over a
\* positive soft timeout.
HardTimedOut(row, nowUnix) ==
    row.hardTimeoutSec > 0 /\ nowUnix - row.lastHeartbeat > row.hardTimeoutSec

SoftTimedOut(row, nowUnix) ==
    /\ ~HardTimedOut(row, nowUnix)
    /\ row.softTimeoutSec > 0
    /\ nowUnix - row.lastHeartbeat > row.softTimeoutSec

RECURSIVE TimedOut(_, _)
TimedOut(list, nowUnix) ==
    IF list = <<>> THEN <<>>
    ELSE IF HardTimedOut(Head(list).row, nowUnix)
    THEN <<[worker |-> Head(list).id, type |-> "hard"]>>
             \o TimedOut(Tail(list), nowUnix)
    ELSE IF SoftTimedOut(Head(list).row, nowUnix)
    THEN <<[worker |-> Head(list).id, type |-> "soft"]>>
             \o TimedOut(Tail(list), nowUnix)
    ELSE TimedOut(Tail(list), nowUnix)

\* The loop of CheckTimeouts: go on to the next worker to handle, with the
\* UpdateState it begins with, or return the actions gathered.
Dispatch(rec) ==
    IF rec.queue = <<>> THEN TeamResult(rec, OK)
    ELSE [rec EXCEPT
             !.pc = "uload",
             !.worker = Head(rec.queue).worker,
             !.hard = Head(rec.queue).type = "hard",
             !.state = IF Head(rec.queue).type = "hard"
                       THEN WorkerHardTimeout ELSE WorkerSoftTimeout,
             !.actions = Append(@, Head(rec.queue)),
             !.queue = Tail(rec.queue)]

\* Where a call goes when its UpdateState, its Replace or its Spawn ends
\* with err: CheckTimeouts drops the error and goes on, to the Replace of a
\* hard timeout or to the next worker; the others return it.
EndUpdate(rec, err) ==
    IF rec.op # "checkTimeouts" THEN TeamResult(rec, err)
    ELSE IF rec.hard THEN [rec EXCEPT !.pc = "rload"]
    ELSE Dispatch(rec)

EndReplace(rec, err) ==
    IF rec.op # "checkTimeouts" THEN TeamResult(rec, err)
    ELSE Dispatch(rec)

\* WorkerRepo.UpdateState: UPDATE workers SET state = ? WHERE worker_id = ?.
UpdateStateRow(id, state) ==
    IF WorkerExists(id)
    THEN [workers EXCEPT ![id].state = state]
    ELSE workers

\* Spawn, first statement: CountActive against MaxWorkers.
SpawnCountStep(c, rec) ==
    /\ IF CountActive(rec.spec.taskID) >= MaxWorkers
       THEN SetCall(c, EndReplace(rec, ErrWorkerLimitReached))
       ELSE SetCall(c, [rec EXCEPT !.pc = "create"])
    /\ UNCHANGED <<workers, intents, now>>

\* WorkerManager.Spawn(spec) called by client c.
Spawn(c, spec) ==
    /\ TeamIdle(c)
    /\ SpawnCountStep(c, [NoTeamCall EXCEPT !.op = "spawn", !.spec = spec])

\* The Spawn that Replace ends with.
SpawnCount(c) ==
    /\ tcall[c].pc = "count"
    /\ SpawnCountStep(c, tcall[c])

\* Spawn, second statement: WorkerRepo.Create of the new worker.
SpawnCreate(c) ==
    /\ tcall[c].pc = "create"
    /\ NextWorkerID <= MaxSpawns
    /\ workers' = workers @@ (NextWorkerID :> NewWorker(tcall[c].spec))
    /\ SetCall(c, EndReplace([tcall[c] EXCEPT !.spawned = NextWorkerID], OK))
    /\ UNCHANGED <<intents, now>>

\* UpdateState, first statement: GetByID and the test of the state read.
UpdateLoadStep(c, rec) ==
    /\ IF ~WorkerExists(rec.worker)
       THEN SetCall(c, EndUpdate(rec, ErrWorkerNotFound))
       ELSE IF isTerminal(workers[rec.worker].state)
       THEN SetCall(c, EndUpdate(rec, ErrWorkerAlreadyDone))
       ELSE SetCall(c, [rec EXCEPT !.pc = "uwrite"])
    /\ UNCHANGED <<workers, intents, now>>

\* WorkerManager.UpdateState(workerID, state) called by client c.
UpdateState(c, id, state) ==
    /\ TeamIdle(c)
    /\ UpdateLoadStep(c, [NoTeamCall EXCEPT
           !.op = "updateState", !.worker = id, !.state = state])

\* The UpdateState that CheckTimeouts makes for a worker.
UpdateLoad(c) ==
    /\ tcall[c].pc = "uload"
    /\ UpdateLoadStep(c, tcall[c])

\* UpdateState, second statement: WorkerRepo.UpdateState.
UpdateWrite(c) ==
    /\ tcall[c].pc = "uwrite"
    /\ workers' = UpdateStateRow(tcall[c].worker, tcall[c].state)
    /\ SetCall(c, EndUpdate(tcall[c],
           IF WorkerExists(tcall[c].worker) THEN OK ELSE ErrWorkerNotFound))
    /\ UNCHANGED <<intents, now>>

\* Replace, first statement: GetByID of the old worker, whose spec the new
\* one gets; state is the state it is loaded in.
ReplaceLoadStep(c, rec) ==
    /\ IF ~WorkerExists(rec.worker)
       THEN SetCall(c, EndReplace(rec, ErrWorkerNotFound))
       ELSE SetCall(c, [rec EXCEPT
                !.pc = "rmark",
                !.state = workers[rec.worker].state,
                !.spec = [taskID |-> workers[rec.worker].taskID,
                          role |-> workers[rec.worker].role,
                          fileOwnership |-> workers[rec.worker].fileOwnership,
                          softTimeoutSec |-> workers[rec.worker].softTimeoutSec,
                          hardTimeoutSec |-> workers[rec.worker].hardTimeoutSec]])
    /\ UNCHANGED <<workers, intents, now>>

\* WorkerManager.Replace(workerID) called by client c.
Replace(c, id) ==
    /\ TeamIdle(c)
    /\ ReplaceLoadStep(c, [NoTeamCall EXCEPT !.op = "replace", !.worker = id])

\* The Replace that CheckTimeouts makes after a hard timeout.
ReplaceLoad(c) ==
    /\ tcall[c].pc = "rload"
    /\ ReplaceLoadStep(c, tcall[c])

\* Replace, second statement: the old worker is marked replaced, whatever
\* its state; Spawn follows.
ReplaceMark(c) ==
    /\ tcall[c].pc = "rmark"
    /\ workers' = UpdateStateRow(tcall[c].worker, WorkerReplaced)
    /\ SetCall(c, IF WorkerExists(tcall[c].worker)
                  THEN [tcall[c] EXCEPT !.pc = "count"]
                  ELSE EndReplace(tcall[c], ErrWorkerNotFound))
    /\ UNCHANGED <<intents, now>>

\* WorkerManager.Shutdown(workerID) called by client c: GetByID.
Shutdown(c, id) ==
    /\ TeamIdle(c)
    /\ LET rec == [NoTeamCall EXCEPT !.op = "shutdown", !.worker = id]
       IN  IF ~WorkerExists(id)
           THEN SetCall(c, TeamResult(rec, ErrWorkerNotFound))
           ELSE SetCall(c, [rec EXCEPT !.pc = "hmark"])
    /\ UNCHANGED <<workers, intents, now>>

\* Shutdown, second statement: the worker is marked done, whatever its
\* state.
ShutdownMark(c) ==
    /\ tcall[c].pc = "hmark"
    /\ workers' = UpdateStateRow(tcall[c].worker, WorkerDone)
    /\ SetCall(c, TeamResult(tcall[c],
           IF WorkerExists(tcall[c].worker) THEN OK ELSE ErrWorkerNotFound))
    /\ UNCHANGED <<intents, now>>

\* Supervisor.CheckTimeouts(taskID, nowUnix) called by client c, as the
\* monitoring loop calls it, with nowUnix = time.Now().Unix(): ListActive,
\* then the workers over their timeouts one after the other.
CheckTimeouts(c, t) ==
    /\ TeamIdle(c)
    /\ SetCall(c, Dispatch([NoTeamCall EXCEPT
           !.op = "checkTimeouts", !.nowUnix = Unix(now),
           !.queue = TimedOut(ListActive(t), Unix(now))]))
    /\ UNCHANGED <<workers, intents, now>>

\* Supervisor.Heartbeat(workerID): UpdateHeartbeat with time.Now().Unix().
Heartbeat(c, id) ==
    /\ TeamIdle(c)
    /\ workers' = IF WorkerExists(id)
                  THEN [workers EXCEPT ![id].lastHeartbeat = Unix(now)]
                  ELSE workers
    /\ SetCall(c, TeamResult(
           [NoTeamCall EXCEPT !.op = "heartbeat", !.worker = id],
           IF WorkerExists(id) THEN OK ELSE ErrWorkerNotFound))
    /\ UNCHANGED <<intents, now>>

\* Time passes: a tick, or a whole second.
Tick ==
    /\ now < MaxTime
    /\ now' = now + 1
    /\ UNCHANGED <<workers, intents, tcall>>

TickSecond ==
    /\ now + TicksPerSec <= MaxTime
    /\ now' = now + TicksPerSec
    /\ UNCHANGED <<workers, intents, tcall>>

\* ================================================== package team: intents

IntentPending == "pending"
IntentRunning == "running"
IntentDone == "done"
IntentCancelled == "cancelled"

ErrIntentConflict == "intent_conflict"
ErrIntentNotFound == "intent_not_found"
ErrLeaseExpired == "lease_expired"
ErrFileOwnership == "file_ownership"
ErrIntentHashMismatch == "intent_hash_mismatch"
RawGetWorker == "get worker: worker not found"
RawMarkDone == "mark done: intent not found"

IntentExists(id) == id \in DOMAIN intents

\* IntentRepo.FindActiveByFile: the task's pending or running intents on
\* the file.
FindActiveByFile(t, f) ==
    {id \in DOMAIN intents :
        /\ intents[id].taskID = t
        /\ intents[id].targetFile = f
        /\ intents[id].status \in {IntentPending, IntentRunning}}

\* IntentRepo.GetByID: the row, or NoIntent with intent_not_found.
IntentByID(id) == IF IntentExists(id) THEN intents[id] ELSE NoIntent

\* ownsFile without the comparison: any file of a worker that owns one.
ownsAnyFile(ownership, target) == ownership # <<>>

ownsFile(ownership, target) ==
    \E i \in DOMAIN ownership : ownership[i] = target

\* UpsertRow with ON CONFLICT(intent_id) DO NOTHING: a known intent_id keeps
\* its row.
UpsertRowInsertOnly(intent) ==
    IF IntentExists(intent.intentID)
    THEN intents
    ELSE intents @@ (intent.intentID :> intent)

\* IntentRepo.UpsertTx: insert the row, or on a known intent_id update every
\* column of it but task_id.
UpsertRow(intent) ==
    IF IntentExists(intent.intentID)
    THEN [intents EXCEPT ![intent.intentID] =
             [intent EXCEPT !.taskID = intents[intent.intentID].taskID]]
    ELSE intents @@ (intent.intentID :> intent)

\* IntentRepo.MarkDoneTx: UPDATE ... SET status = 'done', post_hash = ?.
MarkDoneRow(id, postHash) ==
    IF IntentExists(id)
    THEN [intents EXCEPT ![id].status = IntentDone, ![id].postHash = postHash]
    ELSE intents

\* The lease test of Execute, made the wrong way round for a lease that
\* ends in the current second.
LeaseExpiredStrictly(intent) == intent.leaseUntil + 1 < Unix(now)

\* The lease test of Execute: existing.LeaseUntil < time.Now().Unix().
LeaseExpired(intent) == intent.leaseUntil < Unix(now)

\* IntentResolver.AcquireLock(intent, leaseDurationSec) called by client c,
\* first statement: FindActiveByFile.
AcquireLock(c, intent, lease) ==
    /\ TeamIdle(c)
    /\ LET rec == [NoTeamCall EXCEPT
                      !.op = "acquireLock", !.intent = intent, !.lease = lease]
       IN  IF FindActiveByFile(intent.taskID, intent.targetFile) # {}
           THEN SetCall(c, TeamResult(rec, ErrIntentConflict))
           ELSE SetCall(c, [rec EXCEPT !.pc = "aown"])
    /\ UNCHANGED <<workers, intents, now>>

\* AcquireLock, second statement: the worker is loaded and must own the
\* file; then the intent is made pending with its lease from the clock.
AcquireOwn(c) ==
    /\ tcall[c].pc = "aown"
    /\ LET rec == tcall[c]
       IN  IF ~WorkerExists(rec.intent.workerID)
           THEN SetCall(c, TeamResult(rec, RawGetWorker))
           ELSE IF ~ownsFile(workers[rec.intent.workerID].fileOwnership,
                             rec.intent.targetFile)
           THEN SetCall(c, TeamResult(rec, ErrFileOwnership))
           ELSE SetCall(c, [rec EXCEPT
                    !.pc = "atx",
                    !.intent.status = IntentPending,
                    !.intent.leaseUntil = Unix(now) + rec.lease])
    /\ UNCHANGED <<workers, intents, now>>

\* AcquireLock, the transaction: the upsert.
AcquireTx(c) ==
    /\ tcall[c].pc = "atx"
    /\ intents' = UpsertRow(tcall[c].intent)
    /\ SetCall(c, TeamResult(tcall[c], OK))
    /\ UNCHANGED <<workers, now>>

\* IntentResolver.ReleaseLock(intentID) called by client c: the load.
ReleaseLock(c, id) ==
    /\ TeamIdle(c)
    /\ LET rec == [NoTeamCall EXCEPT !.op = "releaseLock",
                                     !.intent.intentID = id]
       IN  IF ~IntentExists(id)
           THEN SetCall(c, TeamResult(rec, ErrIntentNotFound))
           ELSE SetCall(c, [rec EXCEPT
                    !.pc = "rtx",
                    !.intent = [IntentByID(id) EXCEPT
                                   !.status = IntentCancelled]])
    /\ UNCHANGED <<workers, intents, now>>

\* ReleaseLock, the transaction: the row as loaded is written back,
\* cancelled.
ReleaseTx(c) ==
    /\ tcall[c].pc = "rtx"
    /\ intents' = UpsertRow(tcall[c].intent)
    /\ SetCall(c, TeamResult(tcall[c], OK))
    /\ UNCHANGED <<workers, now>>

\* IntentResolver.Execute(intentID, currentHash, postHash) called by client
\* c: the load, the lease test and the hash test.
Execute(c, id, currentHash, postHash) ==
    /\ TeamIdle(c)
    /\ LET rec == [NoTeamCall EXCEPT
                      !.op = "execute",
                      !.intent = [IntentByID(id) EXCEPT !.intentID = id],
                      !.hash = currentHash, !.postHash = postHash]
       IN  IF ~IntentExists(id)
           THEN SetCall(c, TeamResult(rec, ErrIntentNotFound))
           ELSE IF LeaseExpired(rec.intent)
           THEN SetCall(c, TeamResult(rec, ErrLeaseExpired))
           ELSE IF rec.intent.preHash # currentHash
           THEN SetCall(c, TeamResult(rec, ErrIntentHashMismatch))
           ELSE SetCall(c, [rec EXCEPT !.pc = "etx"])
    /\ UNCHANGED <<workers, intents, now>>

\* Execute, the transaction: the intent is marked done.
ExecuteTx(c) ==
    /\ tcall[c].pc = "etx"
    /\ intents' = MarkDoneRow(tcall[c].intent.intentID, tcall[c].postHash)
    /\ SetCall(c, TeamResult(tcall[c],
           IF IntentExists(tcall[c].intent.intentID) THEN OK ELSE RawMarkDone))
    /\ UNCHANGED <<workers, now>>

\* ======================================================== package bridge

\* The forwarder of Bridge.StreamEvents holds at most one session event: the
\* one it has received and not yet sent on.  stage is where it is with it
\* (idle: none held; record: inside RecordUsage; send: at "out <- ev"),
\* existed and usedBefore are history: whether the task existed as the
\* event was taken up, and its budget_used_usd then.
NoEvent ==
    [stage |-> "idle", type |-> "", task |-> "", amount |-> 0,
     existed |-> FALSE, usedBefore |-> 0, line |-> 0]

\* The output channel takes MaxOut events and is not drained; the code's
\* channel takes 64.
MaxOut == 2

\* The forwarder takes up a cost event of the session of task t whose
\* payload gives amount x: processCostEvent calls RecordUsage, which loads
\* the task.
ForwardLoad(b, t, x) ==
    /\ fwd[b].stage = "idle"
    /\ RecordLoad(b, t, x)
    /\ fwd' = [fwd EXCEPT ![b] =
                  [stage |-> IF call'[b].err = Pending THEN "record" ELSE "send",
                   type |-> "cost", task |-> t, amount |-> x,
                   existed |-> Exists(t),
                   usedBefore |-> GetByID(t).budgetUsed, line |-> 0]]
    /\ UNCHANGED out

\* RecordUsage's transaction; processCostEvent drops what it returns.
ForwardTx(b) ==
    /\ fwd[b].stage = "record"
    /\ RecordTx(b)
    /\ fwd' = [fwd EXCEPT ![b].stage = "send"]
    /\ UNCHANGED out

\* The forwarder takes up an event that is no cost event: nothing is
\* recorded.
ForwardOther(b, t, type) ==
    /\ fwd[b].stage = "idle"
    /\ fwd' = [fwd EXCEPT ![b] =
                  [NoEvent EXCEPT !.stage = "send", !.type = type, !.task = t]]
    /\ UNCHANGED <<engineVars, out>>

\* out <- ev.
ForwardSend(b) ==
    /\ fwd[b].stage = "send"
    /\ Len(out[b]) < MaxOut
    /\ out' = [out EXCEPT ![b] =
                  Append(@, [type |-> fwd[b].type, amount |-> fwd[b].amount,
                             line |-> fwd[b].line])]
    /\ fwd' = [fwd EXCEPT ![b] = NoEvent]
    /\ UNCHANGED engineVars

\* ================================================== package mcp: sessions

\* The one session there is, created and started, and the callers of
\* Bridge.StopSession.
SessionID == "s1"
Stoppers == {"k1", "k2"}

ErrSessionNotFound == "session_not_found"

\* The process writes at most MaxLines lines.
MaxLines == 3

\* The lines the process writes: valid JSON or not, the value of "type"
\* that json.Unmarshal finds in it, and longer than bufio.Scanner's largest
\* token (bufio.MaxScanTokenSize, 64 KiB) or not.
Lines ==
    {[valid |-> TRUE, type |-> "message", long |-> FALSE],
     [valid |-> TRUE, type |-> "", long |-> FALSE],
     [valid |-> FALSE, type |-> "", long |-> FALSE],
     [valid |-> FALSE, type |-> "", long |-> TRUE]}

\* parseEvent taking every line for an event.
parseAccepts(line) == TRUE

\* parseEvent: an error for a line that is no JSON or has no "type".
parseEvent(line) == line.valid /\ line.type # ""

NoStopCall == [pc |-> "", err |-> "none"]

InitSession ==
    /\ stdout = [lines |-> <<>>, open |-> TRUE]
    /\ reader = [pc |-> "scan", type |-> "", line |-> 0]
    /\ evch = [buf |-> <<>>, closed |-> FALSE]
    /\ registry = {SessionID}
    /\ scall = [k \in Stoppers |-> NoStopCall]
    /\ effects = [kills |-> 0, audits |-> 0]
    /\ ctx = [session |-> FALSE, stream |-> FALSE]
    /\ hist = [written |-> <<>>, received |-> <<>>, delivered |-> <<>>,
               stopped |-> FALSE]

\* The process writes a line to its stdout; n is the line's number.
Emit(line) ==
    /\ stdout.open
    /\ Len(hist.written) < MaxLines
    /\ LET n == Len(hist.written) + 1
       IN  /\ stdout' = [stdout EXCEPT
                            !.lines = Append(@, [text |-> line, n |-> n])]
           /\ hist' = [hist EXCEPT !.written = Append(@, line)]
    /\ UNCHANGED <<reader, evch, registry, scall, effects, ctx, fwd, out>>

\* The process is killed and waited for: cmd.Wait closes the pipe, and
\* what the scanner had not read of it is lost or had been buffered.
Killed ==
    \E lines \in {stdout.lines, <<>>} :
        stdout' = [lines |-> lines, open |-> FALSE]

\* The context the session was created with is cancelled:
\* exec.CommandContext kills the process.
CancelSession ==
    /\ ~ctx.session
    /\ ctx' = [ctx EXCEPT !.session = TRUE]
    /\ Killed
    /\ UNCHANGED <<reader, evch, registry, scall, effects, hist, fwd, out>>

\* readStdout at scanner.Scan(): a line is read; Scan ends the loop at a
\* line over the token size and at the end of the pipe, and the deferred
\* close(s.events) runs; a line parseEvent refuses is passed over.
ReaderScan ==
    /\ reader.pc = "scan"
    /\ IF stdout.lines # <<>>
       THEN LET l == Head(stdout.lines)
            IN  /\ stdout' = [stdout EXCEPT !.lines = Tail(@)]
                /\ IF l.text.long
                   THEN /\ reader' = [reader EXCEPT !.pc = "exited"]
                        /\ evch' = [evch EXCEPT !.closed = TRUE]
                   ELSE /\ reader' =
                               IF parseEvent(l.text)
                               THEN [pc |-> "send", type |-> l.text.type,
                                     line |-> l.n]
                               ELSE reader
                        /\ UNCHANGED evch
       ELSE /\ ~stdout.open
            /\ reader' = [reader EXCEPT !.pc = "exited"]
            /\ evch' = [evch EXCEPT !.closed = TRUE]
            /\ UNCHANGED stdout
    /\ UNCHANGED <<registry, scall, effects, ctx, hist, fwd, out>>

\* readStdout at "s.events <- ev": the channel has room.  It takes MaxOut
\* events; the code's takes 64.
ReaderSend ==
    /\ reader.pc = "send"
    /\ Len(evch.buf) < MaxOut
    /\ evch' = [evch EXCEPT
                   !.buf = Append(@, [type |-> reader.type,
                                      line |-> reader.line])]
    /\ reader' = [pc |-> "scan", type |-> "", line |-> 0]
    /\ UNCHANGED <<stdout, registry, scall, effects, ctx, hist, fwd, out>>

\* The forwarder of Bridge.StreamEvents at its select: an event of the
\* session is received.
ForwardReceive(b) ==
    /\ fwd[b].stage = "idle"
    /\ evch.buf # <<>>
    /\ fwd' = [fwd EXCEPT ![b] =
                  [NoEvent EXCEPT !.stage = "send",
                                  !.type = Head(evch.buf).type,
                                  !.line = Head(evch.buf).line]]
    /\ evch' = [evch EXCEPT !.buf = Tail(@)]
    /\ hist' = [hist EXCEPT !.received = Append(@, Head(evch.buf).line)]
    /\ UNCHANGED <<stdout, reader, registry, scall, effects, ctx, out>>

\* The forwarder finds the session's channel closed and empty, or its
\* context done, at either select: it returns, and the deferred close(out)
\* runs.
ForwardReturn(b) ==
    /\ \/ fwd[b].stage = "idle" /\ evch.buf = <<>> /\ evch.closed
       \/ fwd[b].stage \in {"idle", "send"} /\ ctx.stream
    /\ fwd' = [fwd EXCEPT ![b] = [NoEvent EXCEPT !.stage = "exited"]]
    /\ UNCHANGED <<sessionVars, out>>

\* The context StreamEvents was called with is cancelled.
CancelStream ==
    /\ ~ctx.stream
    /\ ctx' = [ctx EXCEPT !.stream = TRUE]
    /\ UNCHANGED <<stdout, reader, evch, registry, scall, effects, hist,
                   fwd, out>>

\* The caller of StreamEvents receives from the output channel.
Drain(b) ==
    /\ out[b] # <<>>
    /\ out' = [out EXCEPT ![b] = Tail(@)]
    /\ hist' = [hist EXCEPT !.delivered = Append(@, Head(out[b]).line)]
    /\ UNCHANGED <<stdout, reader, evch, registry, scall, effects, ctx, fwd>>

\* SessionManager.Stop keeping the session in its map.
RegistryKept(id) == registry

\* SessionManager.Stop: delete(m.sessions, sessionID).
RegistryAfterStop(id) == registry \ {id}

\* Bridge.StopSession(id) called by k, first statement: Sessions.Get.
StopSession(k, id) ==
    /\ scall[k].pc = ""
    /\ scall' = [scall EXCEPT ![k] =
                    IF id \in registry
                    THEN [pc |-> "stop", err |-> Pending]
                    ELSE [pc |-> "", err |-> ErrSessionNotFound]]
    /\ UNCHANGED <<stdout, reader, evch, registry, effects, ctx, hist,
                   fwd, out>>

\* StopSession, second statement: Sessions.Stop, whose error is dropped.
\* It takes the session out of the map and kills its process, or finds it
\* gone.
StopKill(k, id) ==
    /\ scall[k].pc = "stop"
    /\ IF id \in registry
       THEN /\ registry' = RegistryAfterStop(id)
            /\ effects' = [effects EXCEPT !.kills = @ + 1]
            /\ Killed
       ELSE UNCHANGED <<registry, effects, stdout>>
    /\ scall' = [scall EXCEPT ![k].pc = "audit"]
    /\ UNCHANGED <<reader, evch, ctx, hist, fwd, out>>

\* StopSession, third statement: the audit record stop_session, and nil is
\* returned.
StopAudit(k) ==
    /\ scall[k].pc = "audit"
    /\ effects' = [effects EXCEPT !.audits = @ + 1]
    /\ scall' = [scall EXCEPT ![k] = [pc |-> "", err |-> OK]]
    /\ hist' = [hist EXCEPT !.stopped = TRUE]
    /\ UNCHANGED <<stdout, reader, evch, registry, ctx, fwd, out>>

\* What the steps on a session leave alone.
notSession ==
    <<engineVars, teamVars, leaseLog, streamVars, monitorVars, guardVars,
      gateVars>>

\* ============================================ package team: the supervisor

\* The monitoring loops StartMonitoring can start, and the most
\* CheckTimeouts, and the most StopMonitoring calls, that are followed.
Loops == {"l1", "l2"}
MaxChecks == 2

\* stopCh open, the context live, no StopMonitoring returned, no loop
\* started, no tick due.  checks counts the CheckTimeouts of the loops.
InitMonitor ==
    mon = [closed |-> FALSE, cancelled |-> FALSE, stops |-> 0, checks |-> 0,
           pc |-> [l \in Loops |-> "none"],
           due |-> [l \in Loops |-> FALSE]]

\* Supervisor.StartMonitoring: a ticker and a goroutine at its select.
StartMonitoring(l) ==
    /\ mon.pc[l] = "none"
    /\ mon' = [mon EXCEPT !.pc[l] = "select"]
    /\ UNCHANGED teamVars

\* The loop's ticker has a tick ready on its channel.
TickerFires(l) ==
    /\ mon.pc[l] = "select"
    /\ ~mon.due[l]
    /\ mon' = [mon EXCEPT !.due[l] = TRUE]
    /\ UNCHANGED teamVars

\* The loop's select takes <-s.stopCh or <-ctx.Done(): the goroutine
\* returns.
LoopExits(l) ==
    /\ mon.pc[l] = "select"
    /\ mon.closed \/ mon.cancelled
    /\ mon' = [mon EXCEPT !.pc[l] = "exited", !.due[l] = FALSE]
    /\ UNCHANGED teamVars

\* The loop's select takes <-ticker.C, whatever else is ready: select
\* chooses among the ready cases at random.  CheckTimeouts runs.
LoopChecks(l, c, t) ==
    /\ mon.pc[l] = "select"
    /\ mon.due[l]
    /\ mon.checks < MaxChecks
    /\ CheckTimeouts(c, t)
    /\ mon' = [mon EXCEPT !.due[l] = FALSE, !.checks = @ + 1]

\* Supervisor.StopMonitoring: stopOnce.Do(close(stopCh)); the first call
\* closes, and every call returns.
StopMonitoring ==
    /\ mon.stops < MaxChecks
    /\ mon' = [mon EXCEPT !.closed = TRUE, !.stops = @ + 1]
    /\ UNCHANGED teamVars

\* The context given to StartMonitoring is cancelled.
CancelMonitoring ==
    /\ ~mon.cancelled
    /\ mon' = [mon EXCEPT !.cancelled = TRUE]
    /\ UNCHANGED teamVars

\* ========================================================= package guard

GuardCallers == {"g1", "g2"}

ErrPermissionDenied == "permission_denied"
ErrBudgetExceeded == "budget_exceeded"
ErrRateLimitExceeded == "rate_limit_exceeded"
ErrMaxRoundsExceeded == "max_rounds_exceeded"
RawMatchPattern == "match denied pattern: syntax error in pattern"

\* The window of CheckRateLimit, in seconds.
RateWindowSec == 60

\* The most steps of time that are followed.
MaxGuardSteps == 3

\* The GuardConfigs looked at.
GuardConfigs == {[limit |-> l, maxRounds |-> 1] : l \in {1, 2}}

\* A task without an entry in rateCounts.  startedAt and passed are
\* history: the time, in ticks, at which the window began, and the times of
\* the checks that succeeded less than 60 seconds before the last that did,
\* that one included.
NoBucket ==
    [present |-> FALSE, count |-> 0, windowStart |-> 0, startedAt |-> 0,
     passed |-> <<>>]

NoGuardCall ==
    [op |-> "none", pc |-> "", task |-> "", req |-> "", ran |-> <<>>,
     err |-> "none"]

\* NewGuard: the config it is given, and an empty rateCounts.
NewGuard(cfg) ==
    [config |-> cfg, steps |-> 0, rateCounts |-> [t \in TaskIDs |-> NoBucket]]

InitGuard ==
    /\ guard \in {NewGuard(cfg) : cfg \in GuardConfigs}
    /\ gcall = [g \in GuardCallers |-> NoGuardCall]

\* The Guard where no specification calls it.
IdleGuard ==
    /\ guard = NewGuard([limit |-> 1, maxRounds |-> 1])
    /\ gcall = [g \in GuardCallers |-> NoGuardCall]

\* What a request is to CheckPermission: its path matches a denied pattern
\* ("deny"), a denied pattern is malformed ("bad"), its path has no allowed
\* prefix ("path"), its command is not in the allowed list ("command"), or
\* none of these ("clean").
Requests == {"clean", "deny", "bad", "path", "command"}

\* PermissionBroker.CheckPermission, as CheckAll reads it.
CheckPermission(req) ==
    IF req = "bad" THEN RawMatchPattern
    ELSE IF req \in {"deny", "path", "command"} THEN ErrPermissionDenied
    ELSE OK

\* Guard.CheckBudget and the test CheckAll makes of its result.
GuardBudget(t) ==
    IF ~Exists(t) THEN ErrFlowNotFound
    ELSE IF CheckBudget(GetByID(t)) = CostHalt THEN ErrBudgetExceeded
    ELSE OK

\* Guard.CheckRounds.
CheckRounds(t) ==
    IF ~Exists(t) THEN ErrFlowNotFound
    ELSE IF GetByID(t).round >= guard.config.maxRounds
    THEN ErrMaxRoundsExceeded
    ELSE OK

\* Guard.CheckRateLimit under its mutex: what it returns, and the bucket it
\* leaves.
RateLimitErr(t) ==
    LET b == guard.rateCounts[t]
    IN  IF ~b.present THEN OK
        ELSE IF Unix(now) - b.windowStart > RateWindowSec THEN OK
        ELSE IF b.count >= guard.config.limit THEN ErrRateLimitExceeded
        ELSE OK

RECURSIVE Since(_, _)
Since(times, from) ==
    IF times = <<>> THEN <<>>
    ELSE IF Head(times) < from THEN Since(Tail(times), from)
    ELSE times

RateLimitBucket(t) ==
    LET b == guard.rateCounts[t]
        passed == Append(Since(b.passed,
                               now - RateWindowSec * TicksPerSec + 1),
                         now)
        fresh == [present |-> TRUE, count |-> 1, windowStart |-> Unix(now),
                  startedAt |-> now, passed |-> passed]
    IN  IF ~b.present THEN fresh
        ELSE IF Unix(now) - b.windowStart > RateWindowSec THEN fresh
        ELSE IF b.count >= guard.config.limit THEN b
        ELSE [b EXCEPT !.count = @ + 1, !.passed = passed]

\* Guard.CheckRateLimit(taskID) called by g.
CheckRateLimit(g, t) ==
    /\ gcall[g].pc = ""
    /\ guard' = [guard EXCEPT !.rateCounts[t] = RateLimitBucket(t)]
    /\ gcall' = [gcall EXCEPT ![g] =
                    [NoGuardCall EXCEPT !.op = "checkRateLimit", !.task = t,
                                        !.err = RateLimitErr(t)]]
    /\ UNCHANGED <<tasks, now>>

\* CheckAll with the rate limit before the permission.
CheckAfterRateFirst(check) ==
    CASE check = "budget" -> "rate"
      [] check = "rate" -> "permission"
      [] check = "permission" -> "rounds"
      [] check = "rounds" -> ""

\* The statements of CheckAll: the check that follows a check that passed,
\* "" after the last.
CheckAfter(check) ==
    CASE check = "budget" -> "permission"
      [] check = "permission" -> "rate"
      [] check = "rate" -> "rounds"
      [] check = "rounds" -> ""

\* CheckAll has made a check with result err: it returns err, or goes on.
Checked(rec, check, err) ==
    [rec EXCEPT
        !.ran = Append(@, [check |-> check, err |-> err]),
        !.pc = IF err = OK THEN CheckAfter(check) ELSE "",
        !.err = IF err # OK THEN err
                ELSE IF CheckAfter(check) = "" THEN OK ELSE Pending]

\* Guard.CheckAll(taskID, path, command, sheet) called by g: CheckBudget.
CheckAll(g, t, req) ==
    /\ gcall[g].pc = ""
    /\ gcall' = [gcall EXCEPT ![g] =
                    Checked([NoGuardCall EXCEPT !.op = "checkAll",
                                                !.task = t, !.req = req],
                            "budget", GuardBudget(t))]
    /\ UNCHANGED <<guard, tasks, now>>

\* CheckAll: Broker.CheckPermission.
CheckAllPermission(g) ==
    /\ gcall[g].pc = "permission"
    /\ gcall' = [gcall EXCEPT ![g] =
                    Checked(@, "permission", CheckPermission(@.req))]
    /\ UNCHANGED <<guard, tasks, now>>

\* CheckAll: CheckRateLimit.
CheckAllRate(g) ==
    /\ gcall[g].pc = "rate"
    /\ guard' = [guard EXCEPT
                    !.rateCounts[gcall[g].task] = RateLimitBucket(gcall[g].task)]
    /\ gcall' = [gcall EXCEPT ![g] =
                    Checked(@, "rate", RateLimitErr(@.task))]
    /\ UNCHANGED <<tasks, now>>

\* CheckAll: CheckRounds.
CheckAllRounds(g) ==
    /\ gcall[g].pc = "rounds"
    /\ gcall' = [gcall EXCEPT ![g] =
                    Checked(@, "rounds", CheckRounds(@.task))]
    /\ UNCHANGED <<guard, tasks, now>>

\* Time passes: a tick, or a whole window.
GuardTick(d) ==
    /\ guard.steps < MaxGuardSteps
    /\ guard' = [guard EXCEPT !.steps = @ + 1]
    /\ now' = now + d
    /\ UNCHANGED <<tasks, gcall>>

\* What the Guard's steps leave alone.
notGuard ==
    <<events, snapshots, call, workers, intents, tcall, leaseLog, bridgeVars,
      streamVars, sessionVars, monitorVars, gateVars>>

\* ===================================================== the composite gate

\* The most children of a CompositeGate that are looked at.
MaxGates == 3

\* What a child gate's Evaluate returns: an error, or a decision.  A gate
\* is free to return blockers with a decision that allows.
ErrGate == "gate_error"
ChildResults ==
    {[err |-> ErrGate, allow |-> FALSE, blockers |-> <<>>]} \cup
    {[err |-> OK, allow |-> a, blockers |-> bs] :
        a \in BOOLEAN, bs \in {<<>>, <<"x">>, <<"y", "z">>}}

\* The zero GateDecision.
NoDecision == [allow |-> FALSE, blockers |-> <<>>]

\* A CompositeGate that has not been evaluated.
NoGate ==
    [children |-> <<>>, evaluated |-> FALSE, err |-> "none",
     decision |-> NoDecision]

IdleGate == gate = NoGate

InitGate ==
    gate \in {[NoGate EXCEPT !.children = cs] :
                 cs \in UNION {[1..n -> ChildResults] : n \in 0..MaxGates}}

\* One iteration of CompositeGate.Evaluate's loop: the result so far with
\* a child's decision folded in.
Folded(result, decision) ==
    IF ~decision.allow
    THEN [allow |-> FALSE, blockers |-> result.blockers \o decision.blockers]
    ELSE result

\* CompositeGate.Evaluate from child i on, with the result so far: the
\* first child's error ends it with the zero decision.
RECURSIVE EvaluateFrom(_, _, _)
EvaluateFrom(children, i, result) ==
    IF i > Len(children) THEN [err |-> OK, decision |-> result]
    ELSE IF children[i].err # OK
         THEN [err |-> children[i].err, decision |-> NoDecision]
         ELSE EvaluateFrom(children, i + 1, Folded(result, children[i]))

CompositeEvaluate(children) ==
    EvaluateFrom(children, 1, [allow |-> TRUE, blockers |-> <<>>])

\* A call of CompositeGate.Evaluate.
GateEvaluate ==
    /\ ~gate.evaluated
    /\ \E r \in {CompositeEvaluate(gate.children)} :
          gate' = [gate EXCEPT !.evaluated = TRUE, !.err = r.err,
                               !.decision = r.decision]

\* What the gate's steps leave alone.
notGate ==
    <<engineVars, teamVars, leaseLog, bridgeVars, streamVars, sessionVars,
      monitorVars, guardVars>>

\* ===================================================== the event stream

\* The connections to GET /api/v1/flow/{taskID}/events/stream.
Consumers == {"s1"}

\* A consumer that is not connected.  sent is the seqNos written to it, in
\* the order of writing, and batches the number of lists with an event in
\* them that were written.
NoStream ==
    [open |-> FALSE, task |-> "", lastSeq |-> 0, sent |-> <<>>, batches |-> 0]

\* ORDER BY seq_no ASC.
RECURSIVE BySeqNo(_)
BySeqNo(S) ==
    IF S = {} THEN <<>>
    ELSE LET m == CHOOSE x \in S : \A y \in S : x.seqNo <= y.seqNo
         IN  <<m>> \o BySeqNo(S \ {m})

\* ListByTask with seq_no >= ? for seq_no > ?.
ListByTaskFrom(t, sinceSeq) ==
    BySeqNo({events[t][i] : i \in {j \in DOMAIN events[t] :
                                      events[t][j].seqNo >= sinceSeq}})

\* EventRepo.ListByTask: WHERE task_id = ? AND seq_no > ? ORDER BY seq_no.
ListByTask(t, sinceSeq) ==
    BySeqNo({events[t][i] : i \in {j \in DOMAIN events[t] :
                                      events[t][j].seqNo > sinceSeq}})

SeqNosOf(list) == [i \in DOMAIN list |-> list[i].seqNo]

\* Handler.StreamEvents up to its loop: the initial batch, from 0.
StreamOpen(s, t) ==
    /\ ~sse[s].open
    /\ LET list == ListByTask(t, 0)
       IN  sse' = [sse EXCEPT ![s] =
                      [open |-> TRUE, task |-> t,
                       lastSeq |-> IF Len(list) > 0
                                   THEN list[Len(list)].seqNo ELSE 0,
                       sent |-> SeqNosOf(list),
                       batches |-> IF Len(list) > 0 THEN 1 ELSE 0]]
    /\ UNCHANGED engineVars

\* A tick of the stream's ticker: the events after lastSeq are written and
\* lastSeq follows them.
StreamPoll(s) ==
    /\ sse[s].open
    /\ LET list == ListByTask(sse[s].task, sse[s].lastSeq)
       IN  sse' = [sse EXCEPT
                      ![s].lastSeq = IF Len(list) > 0
                                     THEN list[Len(list)].seqNo ELSE @,
                      ![s].sent = @ \o SeqNosOf(list),
                      ![s].batches = IF Len(list) > 0 THEN @ + 1 ELSE @]
    /\ UNCHANGED engineVars

\* The request's context is done: the handler returns.
StreamClose(s) ==
    /\ sse[s].open
    /\ sse' = [sse EXCEPT ![s] = NoStream]
    /\ UNCHANGED engineVars

\* ------------------------------------------------------ the specification

\* What every specification but its own starts the other parts from.
InitRest == InitSession /\ InitMonitor /\ IdleGuard /\ IdleGate

\* NewDB: the schema with empty tables; no caller has called yet.
Init ==
    /\ tasks = <<>>
    /\ events = [t \in TaskIDs |-> <<>>]
    /\ snapshots = [t \in TaskIDs |-> <<>>]
    /\ call = [p \in Procs |-> NoCall]
    /\ workers = <<>>
    /\ intents = <<>>
    /\ now = 0
    /\ tcall = [c \in Clients |-> NoTeamCall]
    /\ leaseLog = <<>>
    /\ fwd = [b \in Forwarders |-> NoEvent]
    /\ out = [b \in Forwarders |-> <<>>]
    /\ sse = [s \in Consumers |-> NoStream]
    /\ InitRest

\* The engine and the budget governor under two handlers and a forwarder.
Next ==
    \/ \E p \in Handlers, t \in TaskIDs, cap \in Caps :
          StartFlow(p, t, cap) /\ UNCHANGED notEngine
    \/ \E p \in Handlers, t \in TaskIDs, a \in Actions :
          AdvanceLoad(p, t, a) /\ UNCHANGED notEngine
    \/ \E p \in Handlers :
          AdvanceTx(p) /\ UNCHANGED notEngine
    \/ \E p \in Forwarders, t \in TaskIDs, x \in Amounts :
          RecordLoad(p, t, x) /\ UNCHANGED notEngine
    \/ \E p \in Forwarders :
          RecordTx(p) /\ UNCHANGED notEngine

Spec == Init /\ [][Next]_vars

\* The specs Spawn is called with: one task, one role.
WorkerSpecs ==
    {[taskID |-> "t1", role |-> "coder", fileOwnership |-> <<"main.go">>,
      softTimeoutSec |-> 1, hardTimeoutSec |-> 2]}

WorkerIDs == 1 .. MaxSpawns

\* The worker manager and the supervisor under two clients.
NextWorker ==
    \/ \E c \in Managers, spec \in WorkerSpecs :
          Spawn(c, spec) /\ UNCHANGED notTeam
    \/ \E c \in Clients :
          SpawnCount(c) /\ UNCHANGED notTeam
    \/ \E c \in Clients :
          SpawnCreate(c) /\ UNCHANGED notTeam
    \/ \E c \in Managers, id \in WorkerIDs, st \in {WorkerRunning} :
          UpdateState(c, id, st)
              /\ UNCHANGED notTeam
    \/ \E c \in Clients :
          UpdateLoad(c) /\ UNCHANGED notTeam
    \/ \E c \in Clients :
          UpdateWrite(c) /\ UNCHANGED notTeam
    \/ \E c \in Managers, id \in WorkerIDs :
          Replace(c, id) /\ UNCHANGED notTeam
    \/ \E c \in Clients :
          ReplaceLoad(c) /\ UNCHANGED notTeam
    \/ \E c \in Clients :
          ReplaceMark(c) /\ UNCHANGED notTeam
    \/ \E c \in Managers, id \in WorkerIDs :
          Shutdown(c, id) /\ UNCHANGED notTeam
    \/ \E c \in Clients :
          ShutdownMark(c) /\ UNCHANGED notTeam
    \/ \E c \in Monitors, t \in TaskIDs :
          CheckTimeouts(c, t)
              /\ UNCHANGED notTeam
    \/ \E c \in Managers, id \in WorkerIDs :
          Heartbeat(c, id) /\ UNCHANGED notTeam
    \/ TickSecond /\ UNCHANGED notTeam

SpecWorker == Init /\ [][NextWorker]_vars

\* The state the intent resolver is looked at from: a worker owning main.go
\* has been spawned and then replaced, which spawned a second one with the
\* same file ownership.
InitIntent ==
    /\ tasks = <<>>
    /\ events = [t \in TaskIDs |-> <<>>]
    /\ snapshots = [t \in TaskIDs |-> <<>>]
    /\ call = [p \in Procs |-> NoCall]
    /\ workers =
           (1 :> [taskID |-> "t1", role |-> "coder", state |-> WorkerReplaced,
                  fileOwnership |-> <<"main.go">>, softTimeoutSec |-> 1,
                  hardTimeoutSec |-> 2, lastHeartbeat |-> 0])
           @@ (2 :> [taskID |-> "t1", role |-> "coder", state |-> WorkerCreated,
                     fileOwnership |-> <<"main.go">>, softTimeoutSec |-> 1,
                     hardTimeoutSec |-> 2, lastHeartbeat |-> 0])
    /\ intents = <<>>
    /\ now = 0
    /\ tcall = [c \in Clients |-> NoTeamCall]
    /\ leaseLog = <<>>
    /\ fwd = [b \in Forwarders |-> NoEvent]
    /\ out = [b \in Forwarders |-> <<>>]
    /\ sse = [s \in Consumers |-> NoStream]
    /\ InitRest

\* The clock of the intent resolver's runs stops after IntentTime ticks.
IntentTime == 2

\* Each client acts for one worker and names its intents by one ID.
WorkerOf(c) == IF c = "c1" THEN 1 ELSE 2
IntentOf(c) == IF c = "c1" THEN "i1" ELSE "i2"
IntentIDs == {IntentOf(c) : c \in Clients}
Leases == {0, 1}
Hashes == {"h0", "h1"}

\* The intent client c asks a lock on file f for.
NewIntent(c, t, f) ==
    [NoIntent EXCEPT !.intentID = IntentOf(c), !.taskID = t,
                     !.workerID = WorkerOf(c), !.targetFile = f,
                     !.preHash = "h0"]

\* The intent resolver under two clients.
NextIntent ==
    \/ \E c \in Clients, t \in TaskIDs, f \in Files, lease \in Leases :
          AcquireLock(c, NewIntent(c, t, f), lease)
              /\ UNCHANGED notTeam
    \/ \E c \in Clients :
          AcquireOwn(c) /\ UNCHANGED notTeam
    \/ \E c \in Clients :
          AcquireTx(c) /\ UNCHANGED notTeam
    \/ \E c \in Clients, id \in IntentIDs :
          ReleaseLock(c, id) /\ UNCHANGED notTeam
    \/ \E c \in Clients :
          ReleaseTx(c) /\ UNCHANGED notTeam
    \/ \E c \in Clients, id \in IntentIDs, h \in Hashes :
          Execute(c, id, h, "h1")
              /\ UNCHANGED notTeam
    \/ \E c \in Clients :
          ExecuteTx(c) /\ UNCHANGED notTeam
    \/ Tick /\ now < IntentTime
            /\ UNCHANGED notTeam

SpecIntent == InitIntent /\ [][NextIntent]_vars

\* AcquireLock's transaction, with the time of its return and the lease it
\* was called with noted down.
AcquireLogged(c) ==
    /\ AcquireTx(c)
    /\ leaseLog' = (tcall[c].intent.intentID :>
                       [at |-> now, lease |-> tcall[c].lease]) @@ leaseLog

\* The intent resolver's acquireLock and execute under two clients, with the
\* lease history kept.
NextLease ==
    \/ \E c \in Clients, t \in TaskIDs, lease \in Leases :
          AcquireLock(c, NewIntent(c, t, "main.go"), lease)
              /\ UNCHANGED notTeam
    \/ \E c \in Clients :
          AcquireOwn(c) /\ UNCHANGED notTeam
    \/ \E c \in Clients :
          AcquireLogged(c) /\ UNCHANGED <<engineVars, bridgeVars, streamVars, restVars>>
    \/ \E c \in Clients, id \in IntentIDs :
          Execute(c, id, "h0", "h1") /\ UNCHANGED notTeam
    \/ \E c \in Clients :
          ExecuteTx(c) /\ UNCHANGED notTeam
    \/ Tick /\ now < IntentTime /\ UNCHANGED notTeam

SpecLease == InitIntent /\ [][NextLease]_vars

\* The amounts of the sessions' cost events, and the types of their other
\* events.
CostAmounts == {2, 5}
OtherTypes == {"message"}

\* A bridge forwarder next to a handler of the engine.
NextBridge ==
    \/ \E t \in TaskIDs, cap \in Caps :
          StartFlow("h1", t, cap) /\ UNCHANGED notEngine
    \/ \E t \in TaskIDs, a \in Actions :
          AdvanceLoad("h1", t, a) /\ UNCHANGED notEngine
    \/ AdvanceTx("h1") /\ UNCHANGED notEngine
    \/ \E b \in Forwarders, t \in TaskIDs, x \in CostAmounts :
          ForwardLoad(b, t, x) /\ UNCHANGED notBridge
    \/ \E b \in Forwarders :
          ForwardTx(b) /\ UNCHANGED notBridge
    \/ \E b \in Forwarders, t \in TaskIDs, type \in OtherTypes :
          ForwardOther(b, t, type)
              /\ UNCHANGED notBridge
    \/ \E b \in Forwarders :
          ForwardSend(b) /\ UNCHANGED notBridge

SpecBridge == Init /\ [][NextBridge]_vars

\* The actions the handlers advance with next to an event stream.
StreamActions == {"advance", "rollback"}

\* An event stream next to the handlers of the engine.
NextStream ==
    \/ \E p \in Handlers, t \in TaskIDs, cap \in Caps :
          StartFlow(p, t, cap) /\ UNCHANGED notEngine
    \/ \E p \in Handlers, t \in TaskIDs, a \in StreamActions :
          AdvanceLoad(p, t, a) /\ UNCHANGED notEngine
    \/ \E p \in Handlers :
          AdvanceTx(p) /\ UNCHANGED notEngine
    \/ \E s \in Consumers, t \in TaskIDs :
          StreamOpen(s, t) /\ UNCHANGED notStream
    \/ \E s \in Consumers :
          StreamPoll(s) /\ UNCHANGED notStream
    \/ \E s \in Consumers :
          StreamClose(s) /\ UNCHANGED notStream

SpecStream == Init /\ [][NextStream]_vars

\* A session with its reader, the forwarder of StreamEvents on it, the
\* receiver of the forwarder's output, and two callers of StopSession.
NextSession ==
    \/ \E line \in Lines : Emit(line) /\ UNCHANGED notSession
    \/ CancelSession /\ UNCHANGED notSession
    \/ CancelStream /\ UNCHANGED notSession
    \/ ReaderScan /\ UNCHANGED notSession
    \/ ReaderSend /\ UNCHANGED notSession
    \/ \E b \in Forwarders : ForwardReceive(b) /\ UNCHANGED notSession
    \/ \E b \in Forwarders :
          ForwardSend(b) /\ UNCHANGED <<sessionVars, teamVars, leaseLog,
                                        streamVars, monitorVars, guardVars, gateVars>>
    \/ \E b \in Forwarders : ForwardReturn(b) /\ UNCHANGED notSession
    \/ \E b \in Forwarders : Drain(b) /\ UNCHANGED notSession
    \/ \E k \in Stoppers : StopSession(k, SessionID) /\ UNCHANGED notSession
    \/ \E k \in Stoppers : StopKill(k, SessionID) /\ UNCHANGED notSession
    \/ \E k \in Stoppers : StopAudit(k) /\ UNCHANGED notSession

SpecSession == Init /\ [][NextSession]_vars

\* The supervisor's loops with StopMonitoring and the context; no worker
\* exists, and a CheckTimeouts is one step.
NextMonitor ==
    \/ \E l \in Loops : StartMonitoring(l) /\ UNCHANGED notMonitor
    \/ \E l \in Loops : TickerFires(l) /\ UNCHANGED notMonitor
    \/ \E l \in Loops : LoopExits(l) /\ UNCHANGED notMonitor
    \/ \E l \in Loops, c \in Monitors, t \in TaskIDs :
          LoopChecks(l, c, t) /\ UNCHANGED notMonitor
    \/ StopMonitoring /\ UNCHANGED notMonitor
    \/ CancelMonitoring /\ UNCHANGED notMonitor

SpecMonitor == Init /\ [][NextMonitor]_vars

\* The tasks the Guard is looked at with: none, and one in phase C with its
\* budget used up or not and its rounds used up or not.
GuardTasks ==
    {<<>>} \cup
    {[t \in TaskIDs |->
         [InitialState(5) EXCEPT !.currentPhase = "C", !.stateVersion = 3,
                                 !.lastEventSeq = 3, !.budgetUsed = u,
                                 !.round = r]] : u \in {0, 5}, r \in {0, 1}}

InitGuarded ==
    /\ tasks \in GuardTasks
    /\ events = [t \in TaskIDs |-> <<>>]
    /\ snapshots = [t \in TaskIDs |-> <<>>]
    /\ call = [p \in Procs |-> NoCall]
    /\ workers = <<>>
    /\ intents = <<>>
    /\ now = 0
    /\ tcall = [c \in Clients |-> NoTeamCall]
    /\ leaseLog = <<>>
    /\ fwd = [b \in Forwarders |-> NoEvent]
    /\ out = [b \in Forwarders |-> <<>>]
    /\ sse = [s \in Consumers |-> NoStream]
    /\ InitSession
    /\ InitMonitor
    /\ InitGuard
    /\ IdleGate

\* The Guard under two callers, and time.
NextGuard ==
    \/ \E g \in GuardCallers, t \in TaskIDs :
          CheckRateLimit(g, t) /\ UNCHANGED notGuard
    \/ \E g \in GuardCallers, t \in TaskIDs, req \in Requests :
          CheckAll(g, t, req) /\ UNCHANGED notGuard
    \/ \E g \in GuardCallers : CheckAllPermission(g) /\ UNCHANGED notGuard
    \/ \E g \in GuardCallers : CheckAllRate(g) /\ UNCHANGED notGuard
    \/ \E g \in GuardCallers : CheckAllRounds(g) /\ UNCHANGED notGuard
    \/ \E d \in {1, RateWindowSec * TicksPerSec} :
          GuardTick(d) /\ UNCHANGED notGuard

SpecGuard == InitGuarded /\ [][NextGuard]_vars

\* A CompositeGate over up to MaxGates children, evaluated once.
InitGated ==
    /\ tasks = <<>>
    /\ events = [t \in TaskIDs |-> <<>>]
    /\ snapshots = [t \in TaskIDs |-> <<>>]
    /\ call = [p \in Procs |-> NoCall]
    /\ workers = <<>>
    /\ intents = <<>>
    /\ now = 0
    /\ tcall = [c \in Clients |-> NoTeamCall]
    /\ leaseLog = <<>>
    /\ fwd = [b \in Forwarders |-> NoEvent]
    /\ out = [b \in Forwarders |-> <<>>]
    /\ sse = [s \in Consumers |-> NoStream]
    /\ InitSession
    /\ InitMonitor
    /\ IdleGuard
    /\ InitGate

NextGate == GateEvaluate /\ UNCHANGED notGate

SpecGate == InitGated /\ [][NextGate]_vars

\* The steps of the session's reader, and of the forwarder.
ReaderStep == (ReaderScan \/ ReaderSend) /\ UNCHANGED notSession

ForwarderStep ==
    \E b \in Forwarders :
        \/ ForwardReceive(b) /\ UNCHANGED notSession
        \/ ForwardSend(b) /\ UNCHANGED <<sessionVars, teamVars, leaseLog,
                                         streamVars, monitorVars, guardVars, gateVars>>
        \/ ForwardReturn(b) /\ UNCHANGED notSession

\* The reader is scheduled whenever it can take a step; nothing is said of
\* who receives from the session's channel.
LiveReader == SpecSession /\ WF_vars(ReaderStep)

\* The reader and the forwarder are scheduled whenever they can take a step;
\* nothing is said of who receives from the output channel.
LiveForwarder ==
    SpecSession /\ WF_vars(ReaderStep) /\ WF_vars(ForwarderStep)



\* ============================================================ properties

\* Caller p's step is the return of a call that persisted an update.
Commits(p) == call[p].err = Pending /\ call'[p].err = OK

\* Caller p's step is the transaction of its Advance.
AdvanceTxStep(p) ==
    call[p].op = "advance" /\ call[p].err = Pending /\ call'[p].err # Pending

\* Caller p's step is a call of op that returns at once or goes on.
Calls(p, op) == Idle(p) /\ call'[p] # call[p] /\ call'[p].op = op

SeqNos(t) == {events[t][i].seqNo : i \in DOMAIN events[t]}

\* The transitions the phase graph allows.
LegalEdges ==
    {<<"A", "B">>, <<"B", "C">>, <<"C", "D">>, <<"D", "E">>, <<"E", "F">>,
     <<"F", "G">>, <<"D", "C">>, <<"F", "E">>}

BackEdges == {<<"D", "C">>, <<"F", "E">>}

\* C1: in every reachable state the seqNo values of a task's events are
\* exactly 1..lastEventSeq, each once; a task that does not exist has none.
C1_EventSeqDense ==
    \A t \in TaskIDs :
        IF Exists(t)
        THEN /\ SeqNos(t) = 1 .. tasks[t].lastEventSeq
             /\ Len(events[t]) = tasks[t].lastEventSeq
        ELSE events[t] = <<>>

\* A task with four events while a RecordUsage has gone through and an
\* Advance has lost its transaction.
C1_Witness ==
    \E t \in TaskIDs, b \in Forwarders, h \in Handlers :
        /\ Exists(t) /\ Len(events[t]) >= 4
        /\ call[b].op = "recordUsage" /\ call[b].err = OK
        /\ call[h].op = "advance" /\ call[h].err \in TxErrors

\* C2: every step that changes a task's persisted phase moves it along one
\* of the eight legal edges, and every accepted advance is such a step.
C2_OnlyLegalEdges ==
    [][\A t \in TaskIDs : Exists(t) =>
          /\ tasks'[t].currentPhase # tasks[t].currentPhase =>
                <<tasks[t].currentPhase, tasks'[t].currentPhase>> \in LegalEdges
          /\ \A p \in Handlers :
                (call[p].op = "advance" /\ call[p].task = t /\ Commits(p)) =>
                <<tasks[t].currentPhase, tasks'[t].currentPhase>> \in LegalEdges
      ]_vars

\* Both back edges taken, with two Advance calls having raced.
C2_Witness ==
    \E t \in TaskIDs, p, q \in Handlers :
        /\ \E i \in DOMAIN events[t] : events[t][i].action = "rollback"
        /\ \E i \in DOMAIN events[t] : events[t][i].action = "rework"
        /\ call[p].op = "advance" /\ call[p].err = OK
        /\ call[q].op = "advance" /\ call[q].err \in TxErrors

\* C3: a step changes a task's stateVersion only by persisting an update of
\* it (an accepted advance or a successful recordUsage), and then by
\* exactly 1.
C3_VersionPlusOne ==
    [][\A t \in TaskIDs : Exists(t) =>
          tasks'[t].stateVersion =
              tasks[t].stateVersion +
              (IF \E p \in Procs : call[p].task = t /\ Commits(p)
               THEN 1 ELSE 0)
      ]_vars

\* An accepted advance, a successful recordUsage and a failed advance have
\* all happened on a task.
C3_Witness ==
    \E t \in TaskIDs, b \in Forwarders, p, q \in Handlers :
        /\ Exists(t) /\ tasks[t].stateVersion >= 3
        /\ call[b].op = "recordUsage" /\ call[b].err = OK
        /\ call[p].op = "advance" /\ call[p].err = OK
        /\ call[q].op = "advance" /\ call[q].err = ErrOptimisticLock

\* Two Advance calls on one task that loaded the same stateVersion and have
\* both been through their transaction.
RacedPair(p, q) ==
    /\ p # q
    /\ call[p].op = "advance" /\ call[q].op = "advance"
    /\ call[p].task = call[q].task
    /\ call[p].err \in TxErrors \cup {OK}
    /\ call[q].err \in TxErrors \cup {OK}
    /\ call[p].state.stateVersion = call[q].state.stateVersion

\* C4 as stated: of two advance calls that loaded the same stateVersion,
\* exactly one commits.
C4_ExactlyOneCommits ==
    \A p, q \in Handlers :
        RacedPair(p, q) => (call[p].err = OK) # (call[q].err = OK)

\* C4 as amended: of two advance calls that loaded the same stateVersion at
\* most one commits; an advance commits in its transaction exactly when no
\* other update of the task has been committed since it loaded (so one of
\* the two commits unless a third update comes first); and an advance that
\* does not commit leaves tasks, events and snapshots as they were.
C4_AtMostOneCommits ==
    /\ [](\A p, q \in Handlers :
             RacedPair(p, q) => ~(call[p].err = OK /\ call[q].err = OK))
    /\ [][\A p \in Handlers : AdvanceTxStep(p) =>
             /\ call'[p].err = OK <=>
                    (/\ Exists(call[p].task)
                     /\ tasks[call[p].task].stateVersion =
                            call[p].state.stateVersion)
             /\ call'[p].err # OK => UNCHANGED <<tasks, events, snapshots>>
         ]_vars

\* Two advance calls loaded the same stateVersion; one committed and the
\* other failed in its transaction.
C4_Witness ==
    \E p, q \in Handlers :
        RacedPair(p, q) /\ call[p].err = OK /\ call[q].err \in TxErrors

\* C5: an advance whose loaded state is stale when its transaction runs,
\* another update of the task having been committed first, returns
\* optimistic_lock.
C5_StaleIsOptimisticLock ==
    [][\A p \in Handlers :
          (/\ AdvanceTxStep(p)
           /\ Exists(call[p].task)
           /\ tasks[call[p].task].stateVersion # call[p].state.stateVersion)
          => call'[p].err = ErrOptimisticLock
      ]_vars

\* C6: a step raises a task's round by 1 when it is an accepted advance
\* along D->C or F->E, and leaves it unchanged otherwise.
C6_RoundOnBackEdges ==
    [][\A t \in TaskIDs : Exists(t) =>
          tasks'[t].round =
              tasks[t].round +
              (IF \E p \in Handlers :
                     /\ call[p].op = "advance" /\ call[p].task = t
                     /\ Commits(p)
                     /\ <<tasks[t].currentPhase, tasks'[t].currentPhase>>
                            \in BackEdges
               THEN 1 ELSE 0)
      ]_vars

\* A task that has gone back twice (round 2), with a recordUsage gone
\* through.
C6_Witness ==
    \E t \in TaskIDs, b \in Forwarders :
        /\ Exists(t) /\ tasks[t].round = 2
        /\ call[b].op = "recordUsage" /\ call[b].err = OK

\* C7: in every reachable state a task whose status is completed is at
\* phase G.
C7_CompletedAtG ==
    \A t \in TaskIDs :
        (Exists(t) /\ tasks[t].status = StatusDone) =>
            tasks[t].currentPhase = "G"

\* A completed task that went through a rework.
C7_Witness ==
    \E t \in TaskIDs :
        /\ Exists(t) /\ tasks[t].status = StatusDone
        /\ \E i \in DOMAIN events[t] : events[t][i].action = "rework"

\* C8: once a task is completed, no step changes its phase or its status,
\* and every advance called on it returns flow_already_done.
C8_CompletedIsFinal ==
    [][\A t \in TaskIDs : (Exists(t) /\ tasks[t].status = StatusDone) =>
          /\ tasks'[t].currentPhase = tasks[t].currentPhase
          /\ tasks'[t].status = StatusDone
          /\ \A p \in Handlers :
                (Calls(p, "advance") /\ call'[p].task = t) =>
                call'[p].err = ErrFlowAlreadyDone
      ]_vars

\* An advance on a completed task has returned flow_already_done, after an
\* advance that had loaded the task at F lost its transaction to the one
\* that completed it.
C8_Witness ==
    \E t \in TaskIDs, p, q \in Handlers :
        /\ Exists(t) /\ tasks[t].status = StatusDone
        /\ call[p].op = "advance" /\ call[p].err = ErrFlowAlreadyDone
        /\ call[q].op = "advance" /\ call[q].err \in TxErrors
        /\ call[q].state.stateVersion = tasks[t].stateVersion - 1

\* C9: a step in which an advance or a startFlow returns an error leaves
\* tasks, events and snapshots as they were.
C9_ErrorChangesNothing ==
    [][\A p \in Handlers :
          (call'[p] # call[p] /\ call'[p].err \notin {OK, Pending}) =>
          UNCHANGED <<tasks, events, snapshots>>
      ]_vars

\* A rework (or unknown action) refused at phase D, and a startFlow refused
\* on the existing task.
C9_Witness ==
    \E t \in TaskIDs, p, q \in Handlers :
        /\ Exists(t) /\ tasks[t].currentPhase = "D"
        /\ call[p].op = "advance" /\ call[p].err = ErrInvalidTransition
        /\ call[q].op = "startFlow" /\ call[q].err # OK

\* C10: a startFlow that fails, which it does on a task ID that exists,
\* returns duplicate_task.
C10_DuplicateTaskCode ==
    \A p \in Handlers :
        (call[p].op = "startFlow" /\ call[p].err # OK) =>
            call[p].err = ErrDuplicateTask

\* C11: every step that commits an advance leaves a persisted state whose
\* status is running and whose budget is not at halt, whatever recordUsage
\* did between the gate and the transaction.
C11_AcceptedFromRunningNotHalt ==
    [][\A p \in Handlers :
          (call[p].op = "advance" /\ Commits(p)) =>
              /\ Exists(call[p].task)
              /\ tasks[call[p].task].status = StatusRunning
              /\ ~(/\ tasks[call[p].task].budgetCap > 0
                   /\ tasks[call[p].task].budgetUsed
                          >= tasks[call[p].task].budgetCap)
      ]_vars

\* An advance was accepted; a later one passed its gate, a recordUsage then
\* took the budget to halt, and the advance lost its transaction.
C11_Witness ==
    \E t \in TaskIDs, b \in Forwarders, p, q \in Handlers :
        /\ Exists(t) /\ CheckBudget(tasks[t]) = CostHalt
        /\ call[b].op = "recordUsage" /\ call[b].err = OK
        /\ call[p].op = "advance" /\ call[p].err = OK
        /\ call[q].op = "advance" /\ call[q].err = ErrOptimisticLock
        /\ call[q].state.stateVersion = tasks[t].stateVersion - 1

\* C14: in every reachable state every task's budgetUsed is at least 0.
C14_BudgetUsedNonNegative ==
    \A t \in TaskIDs : Exists(t) => tasks[t].budgetUsed >= 0

\* C13: once a worker's persisted state is done, replaced or hard_timeout,
\* no step changes it.
C13_TerminalNeverChanges ==
    [][\A id \in DOMAIN workers :
          isTerminal(workers[id].state) =>
              workers'[id].state = workers[id].state
      ]_vars

\* The task's intents on a file whose status is pending or running.
ActiveOn(t, f) ==
    {id \in DOMAIN intents :
        /\ intents[id].taskID = t
        /\ intents[id].targetFile = f
        /\ intents[id].status \in {IntentPending, IntentRunning}}

\* Client c's step is the first statement of a call of op.
TeamCalls(c, op) ==
    TeamIdle(c) /\ tcall'[c] # tcall[c] /\ tcall'[c].op = op

\* Client c's step is the statement its call was at, pc.
TeamStep(c, pc) == tcall[c].pc = pc /\ tcall'[c] # tcall[c]

\* C12: in every reachable state, every task and file has at most one
\* intent whose status is pending or running.
C12_OneActiveIntentPerFile ==
    \A t \in TaskIDs, f \in Files : Cardinality(ActiveOn(t, f)) <= 1

\* C17: an acquireLock returns intent_conflict exactly when a pending or
\* running intent exists for its task and file as it is called; otherwise,
\* for a worker that owns the file, it goes on to its transaction, which
\* returns success and leaves the intent pending; and a releaseLock leaves
\* its intent cancelled, so no longer in the way.
C17_ConflictIffActive ==
    [][\A c \in Clients :
          /\ TeamCalls(c, "acquireLock") =>
                (tcall'[c].err = ErrIntentConflict <=>
                    ActiveOn(tcall'[c].intent.taskID,
                             tcall'[c].intent.targetFile) # {})
          /\ TeamCalls(c, "acquireLock") /\ tcall'[c].err # ErrIntentConflict
                => tcall'[c].pc = "aown"
          /\ (/\ TeamStep(c, "aown")
              /\ WorkerExists(tcall[c].intent.workerID)
              /\ \E i \in DOMAIN workers[tcall[c].intent.workerID].fileOwnership :
                    workers[tcall[c].intent.workerID].fileOwnership[i]
                        = tcall[c].intent.targetFile)
                => tcall'[c].pc = "atx"
          /\ TeamStep(c, "atx") =>
                /\ tcall'[c].err = OK
                /\ intents'[tcall[c].intent.intentID].status = IntentPending
                /\ intents'[tcall[c].intent.intentID].targetFile
                       = tcall[c].intent.targetFile
          /\ TeamStep(c, "rtx") =>
                /\ tcall'[c].err = OK
                /\ intents'[tcall[c].intent.intentID].status = IntentCancelled
      ]_vars

\* One worker's intent on main.go has been released and is cancelled; the
\* other worker has then acquired its own on the same file.
C17_Witness ==
    /\ IntentExists("i1") /\ intents["i1"].status = IntentCancelled
    /\ IntentExists("i2") /\ intents["i2"].status = IntentPending
    /\ intents["i1"].targetFile = intents["i2"].targetFile
    /\ tcall["c1"].op = "releaseLock" /\ tcall["c1"].err = OK
    /\ tcall["c2"].op = "acquireLock" /\ tcall["c2"].err = OK

\* C18: an acquireLock whose worker does not own the target file returns
\* no success and writes nothing: at its ownership test it returns
\* file_ownership, and only a call whose worker owns the file reaches the
\* transaction that writes the intent.
C18_NotOwnerNeverAcquires ==
    [][\A c \in Clients :
          LET w == tcall[c].intent.workerID
              owns == /\ WorkerExists(w)
                      /\ \E i \in DOMAIN workers[w].fileOwnership :
                            workers[w].fileOwnership[i]
                                = tcall[c].intent.targetFile
          IN  /\ (TeamStep(c, "aown") /\ WorkerExists(w) /\ ~owns) =>
                    /\ tcall'[c].err = ErrFileOwnership
                    /\ intents' = intents
              /\ (/\ tcall[c].op = "acquireLock" /\ ~TeamIdle(c)
                  /\ tcall'[c] # tcall[c] /\ ~owns)
                    => (tcall'[c].err # OK /\ intents' = intents)
              /\ (TeamCalls(c, "acquireLock") \/ TeamStep(c, "aown"))
                    => intents' = intents
      ]_vars

\* Worker 2 holds a pending intent on main.go, which it owns; worker 1's
\* call for util.go, which it does not own, has returned file_ownership
\* and there is no intent of worker 1.
C18_Witness ==
    /\ IntentExists("i2") /\ intents["i2"].status = IntentPending
    /\ tcall["c1"].op = "acquireLock"
    /\ tcall["c1"].err = ErrFileOwnership
    /\ tcall["c1"].intent.targetFile = "util.go"
    /\ ~IntentExists("i1")

C20_ZeroLeaseAlwaysExpired ==
    [][\A c \in Clients :
          TeamCalls(c, "execute") =>
              LET id == tcall'[c].intent.intentID
              IN  (/\ id \in DOMAIN leaseLog
                   /\ leaseLog[id].lease = 0
                   /\ now > leaseLog[id].at)
                      => tcall'[c].err = ErrLeaseExpired]_vars

\* C15 (as claimed; the code does otherwise): when the bridge sends a cost
\* event of an existing task on to the output channel, the task's persisted
\* budgetUsed is at least what it was as the bridge took the event up plus
\* the event's amount.
C15_ForwardedCostIsRecorded ==
    [][\A b \in Forwarders :
          (/\ fwd[b].stage = "send"
           /\ fwd'[b].stage = "idle"
           /\ fwd[b].type = "cost"
           /\ fwd[b].existed)
              => /\ Exists(fwd[b].task)
                 /\ GetByID(fwd[b].task).budgetUsed
                        >= fwd[b].usedBefore + fwd[b].amount]_vars

\* The seqNos of a list of events, ascending.
SeqNosAscending(list) == SeqNosOf(BySeqNo({list[i] : i \in DOMAIN list}))

\* C16: what a connected consumer has been sent is, after every step that
\* changes it or the task's events, the committed events up to the highest seqNo it has received, each once and
\* in increasing order of seqNo, and that highest seqNo is its lastSeq; a
\* listing leaves it with every event committed by then, whatever startFlow
\* and advance steps come between its listings.
C16_StreamDeliversEachOnce ==
    [][\A s \in Consumers, t \in TaskIDs :
          (/\ sse'[s].open
           /\ sse'[s].task = t
           /\ (sse'[s] # sse[s] \/ events'[t] # events[t])) =>
              \E committed \in {SeqNosAscending(events'[t])},
                 got \in {sse'[s].sent} :
                  /\ \A i \in 1 .. Len(got) - 1 : got[i] < got[i + 1]
                  /\ sse'[s].lastSeq =
                         (IF got = <<>> THEN 0 ELSE got[Len(got)])
                  /\ Len(got) <= Len(committed)
                  /\ got = SubSeq(committed, 1, Len(got))
                  /\ Len(got) < Len(committed)
                         => committed[Len(got) + 1] > sse'[s].lastSeq
                  /\ sse'[s] # sse[s] => got = committed]_vars

\* C16 happens: a consumer has received four events in three listings or
\* more, and a fifth is committed that it has not yet listed.
C16_Witness ==
    \E s \in Consumers :
        /\ sse[s].open
        /\ sse[s].batches >= 3
        /\ Len(sse[s].sent) = 4
        /\ Len(events[sse[s].task]) = 5

\* Client c's step ends what its CheckTimeouts does for a worker over its
\* hard timeout: the Replace of that worker returns, with or without error,
\* and the action of type hard stays reported.
HardHandled(c) ==
    /\ tcall[c].op = "checkTimeouts"
    /\ tcall[c].hard
    /\ tcall[c].pc \in {"rload", "rmark", "count", "create"}
    /\ tcall'[c].pc \in {"", "uload"}

\* C21 (as claimed; the code does otherwise): when CheckTimeouts has handled
\* a worker over its hard timeout, the worker's persisted state is
\* hard_timeout.
C21_HardTimedOutStaysHardTimeout ==
    [][\A c \in Clients :
          HardHandled(c) =>
              workers'[tcall[c].worker].state = WorkerHardTimeout]_vars

\* C22 (as claimed; the code does otherwise): what CheckTimeouts does for a
\* worker over its hard timeout ends with the creation of exactly one new
\* worker, in state created, of the same task, role, file ownership and
\* timeouts, whatever Spawn calls run beside it.
C22_HardActionSpawnsReplacement ==
    [][\A c \in Clients :
          HardHandled(c) =>
              /\ DOMAIN workers' = DOMAIN workers \cup {NextWorkerID}
              /\ NextWorkerID \notin DOMAIN workers
              /\ LET old == workers[tcall[c].worker]
                     new == workers'[NextWorkerID]
                 IN  /\ new.state = WorkerCreated
                     /\ new.taskID = old.taskID
                     /\ new.role = old.role
                     /\ new.fileOwnership = old.fileOwnership
                     /\ new.softTimeoutSec = old.softTimeoutSec
                     /\ new.hardTimeoutSec = old.hardTimeoutSec]_vars

\* C23 (as claimed; the code does otherwise): once the session's stdout has
\* closed, by StopSession or by the cancelling of its context, the reader
\* eventually exits and closes the session's event channel, whether or not
\* anything receives from that channel.
C23_ReaderExitsAfterStop ==
    (~stdout.open) ~> (reader.pc = "exited" /\ evch.closed)

\* C24 (as claimed; the code does otherwise): once the session's event
\* channel is closed or the forwarder's context is cancelled, the forwarder
\* eventually returns and closes its output channel, whether or not the
\* output channel is received from.
C24_ForwarderExits ==
    \A b \in Forwarders :
        (evch.closed \/ ctx.stream) ~> (fwd[b].stage = "exited")

\* The numbers of the lines written that are valid JSON with a type, in the
\* order of writing.
RECURSIVE WellFormedLines(_)
WellFormedLines(n) ==
    IF n = 0 THEN <<>>
    ELSE WellFormedLines(n - 1)
             \o (IF hist.written[n].valid /\ hist.written[n].type # ""
                 THEN <<n>> ELSE <<>>)

IsPrefix(a, b) == Len(a) <= Len(b) /\ a = SubSeq(b, 1, Len(a))

\* C26 (as claimed; the code does otherwise): the events received from the
\* session's channel, and those received from the forwarder's output, are
\* at every instant the first of the well-formed lines written, in their
\* order, each once; and no line ends the stream: the reader exits only
\* when stdout has closed.
C26_EventsAreWellFormedLines ==
    /\ IsPrefix(hist.received, WellFormedLines(Len(hist.written)))
    /\ IsPrefix(hist.delivered, hist.received)
    /\ reader.pc = "exited" => ~stdout.open

\* C27: a StopSession called on the session after a StopSession on it has
\* returned nil returns session_not_found, and its step kills no process,
\* writes no audit record and leaves the manager's map and stdout as they
\* are.
C27_SecondStopNotFound ==
    [][\A k \in Stoppers :
          (hist.stopped /\ scall[k].pc = "" /\ scall'[k] # scall[k]) =>
              /\ scall'[k] = [pc |-> "", err |-> ErrSessionNotFound]
              /\ effects' = effects
              /\ registry' = registry
              /\ stdout' = stdout]_vars

\* C27 happens: a StopSession has returned nil, one process was killed and
\* one audit record written, and every caller's last StopSession, the
\* successful caller's too, has returned session_not_found.
C27_Witness ==
    /\ hist.stopped
    /\ effects = [kills |-> 1, audits |-> 1]
    /\ \A k \in Stoppers : scall[k] = [pc |-> "", err |-> ErrSessionNotFound]

\* C25 (as claimed; the code does otherwise): once StopMonitoring has been
\* called, or the context cancelled, no monitoring loop begins a
\* CheckTimeouts.
C25_NoCheckAfterStop ==
    [][(mon.closed \/ mon.cancelled) => mon'.checks = mon.checks]_vars

\* Caller g's step is a CheckRateLimit on task t, called by itself or by
\* CheckAll, and what that CheckRateLimit returns.
RateChecked(g, t) ==
    \/ /\ gcall[g].pc = ""
       /\ gcall'[g].op = "checkRateLimit"
       /\ gcall'[g].task = t
       /\ gcall'[g] # gcall[g] \/ guard'.rateCounts # guard.rateCounts
    \/ /\ gcall[g].pc = "rate"
       /\ gcall[g].task = t
       /\ gcall'[g] # gcall[g]

RateResult(g) ==
    IF gcall'[g].op = "checkRateLimit" THEN gcall'[g].err
    ELSE gcall'[g].ran[Len(gcall'[g].ran)].err

\* C28 (as claimed; the code does otherwise): a CheckRateLimit fails, with
\* rate_limit_exceeded, exactly when the task's window began no more than
\* 60 seconds ago and limit checks have succeeded in it; so the first
\* check of a task, and the first check after the window has elapsed,
\* succeed.
C28_RateLimitWindow ==
    [][\A g \in GuardCallers, t \in TaskIDs :
          RateChecked(g, t) =>
              LET b == guard.rateCounts[t]
                  inWindow == /\ b.present
                              /\ now - b.startedAt
                                     <= RateWindowSec * TicksPerSec
              IN  RateResult(g) =
                      (IF inWindow /\ b.count >= guard.config.limit
                       THEN ErrRateLimitExceeded ELSE OK)]_vars

\* The checks of CheckAll in their order.
CheckOrder == <<"budget", "permission", "rate", "rounds">>

\* C29: when a CheckAll returns, the checks it has made are the first of
\* budget, permission, rate limit and round cap in that order, up to the
\* first that failed; each but the last passed; it returns what the last
\* returned, and nil only after all four; budget, permission and round cap
\* returned what they return for the task and the request, and without the
\* rate limit check the rate counts are as they were.
C29_CheckAllOrder ==
    [][\A g \in GuardCallers :
          (gcall'[g].op = "checkAll" /\ gcall'[g] # gcall[g]) =>
              LET rec == gcall'[g]
                  n == Len(rec.ran)
              IN  /\ n \in 1 .. 4
                  /\ \A i \in 1 .. n :
                        /\ rec.ran[i].check = CheckOrder[i]
                        /\ i < n => rec.ran[i].err = OK
                        /\ CheckOrder[i] = "budget" =>
                               rec.ran[i].err = GuardBudget(rec.task)
                        /\ CheckOrder[i] = "permission" =>
                               rec.ran[i].err = CheckPermission(rec.req)
                        /\ CheckOrder[i] = "rounds" =>
                               rec.ran[i].err = CheckRounds(rec.task)
                  /\ rec.pc = "" <=> (rec.ran[n].err # OK \/ n = 4)
                  /\ rec.pc = "" => rec.err = rec.ran[n].err
                  /\ rec.pc # "" => rec.err = Pending
                  /\ CheckOrder[n] # "rate" => guard' = guard]_vars

\* C29 happens: one CheckAll has returned after all four checks, the other
\* has been refused at the rate limit, after budget and permission passed.
C29_Witness ==
    \E g, h \in GuardCallers :
        /\ gcall[g].op = "checkAll" /\ gcall[g].pc = ""
        /\ Len(gcall[g].ran) = 4
        /\ gcall[h].op = "checkAll" /\ gcall[h].pc = ""
        /\ gcall[h].err = ErrRateLimitExceeded
        /\ Len(gcall[h].ran) = 3


\* All of a sequence of child decisions allow.
RECURSIVE AllAllow(_)
AllAllow(children) ==
    children = <<>> \/ (Head(children).allow /\ AllAllow(Tail(children)))

\* The blockers of a sequence of child decisions, in child order.
RECURSIVE AllBlockers(_)
AllBlockers(children) ==
    IF children = <<>> THEN <<>>
    ELSE Head(children).blockers \o AllBlockers(Tail(children))

Accepted(t) ==
    {i \in DOMAIN events[t] : events[t][i].eventType = "phase_transition"}

\* Task t was started and six advance calls with action advance, and no
\* other transition, have been accepted for it.
SixAdvances(t) ==
    /\ Exists(t)
    /\ Cardinality(Accepted(t)) = 6
    /\ \A i \in Accepted(t) : events[t][i].action = "advance"

\* C31: after startFlow and six accepted advance calls with action advance
\* (and no other accepted transition) the task is at phase G with status
\* completed, round 0 and lastEventSeq 7, and has exactly seven events and
\* exactly six snapshots.
C31_FullForwardPath ==
    \A t \in TaskIDs :
        SixAdvances(t) =>
            /\ tasks[t].currentPhase = "G"
            /\ tasks[t].status = StatusDone
            /\ tasks[t].round = 0
            /\ tasks[t].lastEventSeq = 7
            /\ Len(events[t]) = 7
            /\ Len(snapshots[t]) = 6

\* The six advances have been accepted and no recordUsage has gone through:
\* the task's state_version counts the insert and the six updates only.
C31_Witness ==
    \E t \in TaskIDs :
        /\ SixAdvances(t)
        /\ tasks[t].stateVersion = 7
        /\ events[t][1].eventType = "flow_started"

\* C32: at every instant the number of workers of a task in state created
\* or running is at most MaxWorkers.
C32_ActiveWithinLimit ==
    \A t \in TaskIDs : CountActive(t) <= MaxWorkers

\* The workers of task t that are not in a terminal state and whose
\* heartbeat age is over their positive hard timeout.
HardDue(t) ==
    {id \in DOMAIN workers :
        /\ workers[id].taskID = t
        /\ ~isTerminal(workers[id].state)
        /\ workers[id].hardTimeoutSec > 0
        /\ Unix(now) - workers[id].lastHeartbeat > workers[id].hardTimeoutSec}

\* The workers a CheckTimeouts of task t called now handles as over their
\* hard timeout: marks hard_timeout and replaces.
HardActions(t) ==
    LET actions == TimedOut(ListActive(t), Unix(now))
    IN  {actions[i].worker :
            i \in {j \in DOMAIN actions : actions[j].type = "hard"}}

\* C33 (as claimed; the code does otherwise): at every instant at which the
\* heartbeat age of a worker exceeds its positive hardTimeoutSec, a
\* supervisor tick handles it as a hard timeout, also when an earlier tick
\* has marked it soft_timeout.
C33_HardTimeoutAfterSoft ==
    \A t \in TaskIDs : HardDue(t) \subseteq HardActions(t)

\* C34 (as claimed; the code does otherwise): no step of a releaseLock or of
\* an execute changes the status or the postHash of an intent whose status
\* is done or cancelled.
C34_FinishedIntentIsFrozen ==
    [][\A c \in Clients :
          (tcall[c].pc \in {"rtx", "etx"} /\ tcall'[c] # tcall[c]) =>
              \A id \in DOMAIN intents :
                  intents[id].status \in {IntentDone, IntentCancelled} =>
                      /\ intents'[id].status = intents[id].status
                      /\ intents'[id].postHash = intents[id].postHash]_vars

\* C35 (as claimed; the code does otherwise): an acquireLock by a worker
\* that owns the file is not refused as a conflict when the only active
\* intents on its (taskID, targetFile) are pending intents of other
\* workers whose leases have expired.
C35_ExpiredLeaseFreesFile ==
    [][\A c \in Clients :
          (/\ TeamCalls(c, "acquireLock")
           /\ WorkerExists(WorkerOf(c))
           /\ ownsFile(workers[WorkerOf(c)].fileOwnership,
                       tcall'[c].intent.targetFile)
           /\ ActiveOn(tcall'[c].intent.taskID,
                       tcall'[c].intent.targetFile) # {}
           /\ \A id \in ActiveOn(tcall'[c].intent.taskID,
                                 tcall'[c].intent.targetFile) :
                 /\ intents[id].status = IntentPending
                 /\ intents[id].workerID # WorkerOf(c)
                 /\ LeaseExpired(intents[id]))
          => tcall'[c].err # ErrIntentConflict]_vars

\* Client c's step is the return of its Replace.
ReplaceReturns(c) ==
    tcall[c].op = "replace" /\ tcall[c].pc # "" /\ tcall'[c].pc = ""

\* C36 (as claimed; the code does otherwise): a Replace that returns a new
\* worker leaves the old worker replaced and the new one created, and a
\* Replace that returns an error leaves the old worker in the state it
\* loaded it in.
C36_ReplaceAllOrNothing ==
    [][\A c \in Managers :
          ReplaceReturns(c) =>
              IF tcall'[c].err = OK
              THEN /\ workers'[tcall[c].worker].state = WorkerReplaced
                   /\ DOMAIN workers' # DOMAIN workers
              ELSE workers'[tcall[c].worker].state = tcall[c].state]_vars

\* C37: a recordUsage that returns success changes, of its task, budgetUsed
\* (by its amount) and stateVersion (by one) only: currentPhase, status,
\* round, lastEventSeq and budgetCap, and the events and snapshots, stay as
\* they are, whatever was committed since it loaded the task.
C37_RecordUsageFrame ==
    [][\A b \in Forwarders :
          (call[b].op = "recordUsage" /\ Commits(b)) =>
              \E t \in {call[b].task} :
                  /\ tasks' = [tasks EXCEPT
                        ![t].budgetUsed = @ + call[b].amount,
                        ![t].stateVersion = @ + 1]
                  /\ UNCHANGED <<events, snapshots>>]_vars

\* A recordUsage has gone through on a task that had moved on from A, and
\* an advance that had loaded the task before it lost its transaction to it.
C37_Witness ==
    \E t \in TaskIDs, b \in Forwarders, h \in Handlers :
        /\ Exists(t) /\ tasks[t].currentPhase # "A"
        /\ call[b].op = "recordUsage" /\ call[b].err = OK
        /\ tasks[t].budgetUsed # 0
        /\ call[h].op = "advance" /\ call[h].err = ErrOptimisticLock
        /\ call[h].state.stateVersion = tasks[t].stateVersion - 1

\* The budgetUsed of task t, 0 while it does not exist.
BudgetUsedOf(t) == IF Exists(t) THEN tasks[t].budgetUsed ELSE 0

BackEdgesTaken(t) ==
    {i \in DOMAIN events[t] :
        <<events[t][i].from, events[t][i].to>> \in BackEdges}

\* C39 (as claimed; the code does otherwise): the number of rollback and
\* rework transitions accepted for a task never exceeds the Guard's
\* maxRounds.
C39_BackEdgesWithinMaxRounds ==
    \A t \in TaskIDs :
        Cardinality(BackEdgesTaken(t)) <= guard.config.maxRounds

\* C40 (as claimed; the code does otherwise): for every task, the checks of
\* the rate limit that succeeded less than 60 seconds before the last one
\* that did, that one included, are at most limit; so no interval of 60
\* seconds, wherever it begins, holds more than limit successful checks.
C40_SlidingWindowLimit ==
    \A t \in TaskIDs :
        Len(guard.rateCounts[t].passed) <= guard.config.limit
====
